---- MODULE Spec2Model ----
(***************************************************************************)
(* Londiste replay core: the per-table state machine of playback.py, the   *)
(* main replay worker, the per-table copy workers, the provider queue      *)
(* they consume and the admin commands that touch table state.             *)
(*                                                                         *)
(* Atomicity: one action is one database round of a worker.  A worker      *)
(* loads the table list (one query), later runs one pass of its sync       *)
(* handler (each change_table_state commits on its own, and every table    *)
(* is written at most once in a pass), and later commits the batch.        *)
(* Between these rounds every other process may run, so a worker acts on   *)
(* the table states it loaded, not on the ones stored now.                 *)
(***************************************************************************)
EXTENDS Integers, Sequences, FiniteSets, TLC

\* ---------------------------------------------------------------- bounds
MaxTick == 4          \* ticks the provider queue creates
AdmitTicks == 5       \* ticks of the runs that vary the copy sources
RaceTicks == 6        \* ticks of the long runs
TuneTicks == 4        \* ticks of the runs with pgq_min_count or pgq_min_interval
EvPerTick == 1        \* transactions committed between two ticks
MaxEvents == 3        \* events in the batch of the event-by-event runs
MaxValues == 3        \* values added to an ExecAttrs container
MaxShardMask == 3     \* largest shard_mask in partconf.conf
MaxHash == 5          \* event hashes run from -MaxHash to MaxHash
MaxChain == 4         \* events on one pkey in a batch of the bulk loader
MaxData == 2          \* values of the non-key column of a row
MaxKey == 3           \* primary key values of the repaired table
MaxRepVal == 2        \* values of the other column of the repaired table
MaxCascade == 3       \* nodes upstream of the node that runs add-table
MaxObfInt == 1        \* integer column values run from 0 to MaxObfInt
MaxObjTick == 5       \* batches one table object is followed through
MaxObjTxid == 4       \* transactions of the events of those batches
MaxObjCalls == 2      \* events of the table in one of those batches
MaxFkeys == 3         \* foreign keys in the subscriber's database
MaxCopyTick == 4      \* ticks of the queue the one copy worker follows
MaxPlugEvents == 3    \* events of one batch whose handler calls are followed
MaxPlugBatch == 2     \* batches whose handler calls are followed
MaxSlots == 2         \* largest parallel_copies of the slot count
MaxPool == 2          \* largest threaded_copy_pool_size
MaxAdmits == 3        \* admitting passes counted
MaxShardBatch == 3    \* batches of the worker whose shard info is followed
MaxInfoMask == 1      \* largest shard_mask of a changing partconf.conf
MaxInfoHash == 2      \* largest hash of an event of those batches
MaxPipes == 2         \* largest parallel of a CopyPipeMultiProc
MaxPipeRows == 4      \* rows written to the pipe
MaxRowLen == 2        \* longest row, in units of a third of COPY_MERGE_BUF
MaxRead == 2          \* largest size an inserter reads at once, same units
MaxGcTick == 6        \* ticks of the main worker that keeps one table object
MaxGcCopies == 2      \* copies of that table, the first and those after a resync
HandOffTicks == 5     \* ticks of the runs with one copy at a time and accumulated batches
MaxFlushes == 2       \* flushes of one bulk loader
MaxBulkRows == 1      \* rows per operation in one flush
MaxAddTables == 3     \* tables named in one add-table command

\* ------------------------------------------------------------- constants
TABLE_MISSING == 0
TABLE_IN_COPY == 1
TABLE_CATCHING_UP == 2
TABLE_WANNA_SYNC == 3
TABLE_DO_SYNC == 4
TABLE_OK == 5

SYNC_OK == 0
SYNC_LOOP == 1
SYNC_EXIT == 2
SYNC_RAISE == 3       \* the pass raised an exception

OkBatchLimit == 3     \* interesting(): ok_batch_count > 3

TableSeq == <<"t1", "t2">>
Tables == {TableSeq[i] : i \in 1..Len(TableSeq)}
Main == "main"
Procs == {Main} \cup Tables      \* a copy worker is named after its table

\* parallel_copies beyond the number of tables changes nothing
MaxParallel == Len(TableSeq)

None == 0             \* python None for tick ids and snapshots
NoTick == -1          \* last_tick = None (0 is its initial value)

ProvStates == {"ok", "in-copy", "absent"}   \* "absent": not in the provider's list

CopyStates == {TABLE_IN_COPY, TABLE_CATCHING_UP, TABLE_WANNA_SYNC, TABLE_DO_SYNC}

\* ------------------------------------------------------------- variables
VARIABLES
    tickLimit,       \* provider queue: ticks created before it goes idle
    lastTick,        \* provider queue: id of the newest tick
    provState,       \* provider: merge_state of each table there, or "absent"
    db,              \* subscriber: londiste.table_info row of each table
    fkeyDropped,     \* subscriber: drop_fkeys has run for the table
    copyNode,        \* tables whose table_attrs have copy_node
    parallel_copies, \* config
    pc,              \* position of each process
    curTick,         \* Replicator.cur_tick
    prevTick,        \* Replicator.prev_tick
    pos,             \* last tick the consumer has finished
    workState,       \* DBScript.work_state
    pgqMin,          \* pgq_min_count or pgq_min_interval is set
    dsyncBackup,     \* Replicator.dsync_backup: <<tick, saved pgqMin>> or <<>>
    mem,             \* table_map of each process: TableState objects
    applied,         \* history: txids passed to the handler, per worker kind and table
    copySnap,        \* history: snapshot recorded by the copy of the table
    waitDone         \* wait_for_sync has returned

\* one batch of one worker, event by event
VARIABLES
    evTypes,         \* provider queue: event types the batch may carry
    evDone,          \* events of the batch handled so far; their ids are 1..evDone
    ignore_truncate, \* handler config of each table
    sql_list,        \* Replicator.sql_list: statements waiting for flush_sql
    executed,        \* subscriber: what the cursor has executed, in order
    used_plugins,    \* Replicator.used_plugins: tables whose handler is in use
    rowBuf,          \* DirectLoader.data of each table's dispatch handler
    touched          \* history: tables whose changed flag was set in the batch

\* exec_attrs.py: one ExecAttrs container and what is done with it
VARIABLES
    attrs,           \* ExecAttrs.attrs: key -> list of values
    local_tables,    \* names in the worker's table map
    existing,        \* names of the tables that exist on the subscriber
    sqlText,         \* result of to_sql
    parsed,          \* the container ExecAttrs(sql = sqlText), or its failure
    needResult,      \* result of need_execute
    attrPc           \* what has been called so far

\* handlers/shard.py: the nodes of one sharded cluster and the event they see
VARIABLES
    shardConf,       \* partconf.conf of the cluster: shard_mask and shard_count
    shardNode,       \* per node: what prepare_batch and process_event have come to
    disable_replay,  \* nodes whose handler has the disable_replay argument
    shardEv,         \* the event the nodes are handling, <<>> before the first
    shardSeen,       \* history: nodes that were handed the event
    shardApplied     \* history: nodes whose handler passed the event on

\* handlers/dispatch.py: one bulk loader and the destination row of one pkey
VARIABLES
    ldPkOnly,        \* the table has no column outside its primary key
    ldStart,         \* destination row before the batch
    ldChain,         \* history: the events of the batch, <<op, row>> each
    pkey_ev_map,     \* BaseBulkCollectingLoader.pkey_ev_map
    ldDest,          \* destination row after flush
    ldPc             \* "collect" while events arrive, "flushed" after flush

\* repair.py: one table on both sides, its two dumps and the fix statements
VARIABLES
    rpFields,        \* Repairer.common_fields: how many, the key column first
    srcTab,          \* the table on the provider: key -> value, Absent
    dstTab,          \* the table on the subscriber when it was dumped
    dumpSrc,         \* f1: lines of the sorted source dump not read yet
    dumpDst,         \* f2: lines of the sorted destination dump not read yet
    src_ln,          \* dump_compare_streams: src_ln, <<>> at end of file
    dst_ln,          \* dump_compare_streams: dst_ln, <<>> at end of file
    fixes,           \* statements given to show_fix, in order
    fixedTab,        \* the subscriber's table after the statements were applied
    rpPc             \* where the repair run is

\* admin.py, util.py: add-table --find-copy-node on a leaf of a cascade
VARIABLES
    fcNeed,          \* find_copy_source: need, the tables to be added
    fcUsable,        \* per node upstream: tables that are local and may be copied
    fcCreate,        \* --create or --create-full was given
    fcName,          \* find_copy_source: node_name
    fcLoc,           \* find_copy_source: node_location, 0 before the search
    copy_node,       \* options.copy_node, "" while not set
    provider_location,  \* LondisteSetup.provider_location
    addPc            \* where cmd_add_table is, or the UsageError it raised

\* handlers/obfuscate.py: one source row, seen as an event and as a COPY line
VARIABLES
    obf_map,         \* Obfuscator.obf_map of the table: column -> rule
    obfRow,          \* the row on the provider: column -> value
    obfFormat,       \* payload of the event: "urlenc" or "json"
    obfReplay,       \* the row the replayed event leaves in the table
    obfCopy          \* the row the copied line leaves in the table

\* playback.py: one TableState object over the batches of its worker
VARIABLES
    tsObj,           \* the TableState object
    tsCopy,          \* the worker is the copy worker of the table
    tsTick,          \* cur_tick of the batch at hand, 0 before the first
    tsCalls,         \* events of the table handled in the batch at hand
    tsSeen           \* history: ticks of the batches in which the table took
                     \* an event that lies outside its snapshot

\* playback.py: the admission loop of one pass of the main worker, call by call
VARIABLES
    akKeys,          \* foreign keys in the subscriber's database: <<from, to>>
    akKeys0,         \* history: the keys before the pass
    akState,         \* committed merge_state of the tables
    akTodo,          \* missing tables the loop has not come to yet
    akCur,           \* the table being admitted, "" between tables
    fkey_list,       \* drop_fkeys: rows of find_table_fkeys not handled yet
    akTx,            \* statements of the open transaction on dst_db
    akLog,           \* history: what happened, in order: a committed
                     \* transaction with its statements, or a launch
    npossible,       \* sync_from_main_thread: npossible
    akPc             \* where the loop is

\* playback.py: the copy worker of one table, pass by pass
VARIABLES
    csRow,           \* the row of the table: merge_state, copy_role, dropped_ddl
    csObj,           \* the worker's TableState as loaded for the pass at hand
    csQueue,         \* newest tick of the queue
    csCur,           \* cur_tick of the worker's batch
    csWork,          \* Replicator.work_state: result of the preceding work()
    csRestored,      \* history: restore_copy_ddl has run
    csPc             \* where the worker is
\* playback.py: the handler calls of one batch after another
VARIABLES
    plNode,          \* the node: copy_events, and the order the framework uses
    plLocal,         \* tables registered on the node
    plInfo,          \* batch_info of the batch at hand, by its tick
    plUsed,          \* used_plugins, by table name
    plCur,           \* cur_tick each table's handler keeps (applyfn)
    plLog,           \* calls made to each table's handler in this batch
    plLeft,          \* events the batch may still deliver
    plPc             \* "idle" between batches, "events" inside one
\* playback.py: parallel-copy slots with threaded copies
VARIABLES
    slCfg,           \* parallel_copies, threaded_copy_pool_size, tables matching threaded_copy_tables
    slState,         \* state of each table as the main worker loads it
    slAdmits         \* history: passes that admitted a table
\* handlers/shard.py: the shard info over the batches of one worker
VARIABLES
    sbConf,          \* the row of partconf.conf
    sbShard,         \* the module's _SHARD_NR and _SHARD_MASK
    sbBatch,         \* batches started
    sbUsed,          \* sharded tables with a handler in used_plugins
    sbReads,         \* load_shard_info calls of the batch at hand
    sbTotal,         \* load_shard_info calls of the process
    sbAtFirst,       \* history: partconf.conf at the batch's first sharded event
    sbApplied,       \* history: hashes of the batch that were applied
    sbPc             \* "idle" between batches, "events" inside one
\* util.py: CopyPipeMultiProc and the MPipeReader of each inserter
VARIABLES
    cpParallel,      \* parallel: inserter processes and pipes
    cpWritten,       \* history: rows given to write, in order
    block_buf,       \* rows collected for the next block
    block_buf_len,   \* their length
    send_pos,        \* blocks sent so far
    cpPipe,          \* blocks in each pipe, not yet received
    cpSent,          \* history: every block sent, with the pipe it went to
    rdBlocks,        \* MPipeReader.blocks of each inserter
    rdBuf,           \* MPipeReader.buf of each inserter
    rdOut,           \* bytes each inserter's COPY has read
    rdState,         \* "run", "eof" (committed) or "failed", per inserter
    cpPc             \* "copy", "join", "done" or "raised"
\* playback.py: one table object of the main worker over copies and resyncs
VARIABLES
    gsRow,           \* the row of the table
    gsObj,           \* the main worker's TableState of the table
    gsCopies,        \* copies of the table made so far; a copy's number is its snapshot
    gsTick,          \* cur_tick of the main worker's last batch
    gsPrev,          \* prev_tick of that batch
    gsSeen           \* history: <<snapshot, tick>> of each gc_snapshot call without lag
\* dispatch.py: one BulkLoader flushed batch after batch
VARIABLES
    bfGp,            \* the destination has pg_catalog.gp_distribution_policy
    bfPolicy,        \* distribution columns of the table in that catalog
    bfAssert,        \* the interpreter runs assert statements (no -O)
    dist_fields,     \* BulkLoader.dist_fields
    bfKeys,          \* BulkLoader.keys
    bfOpMap,         \* rows per operation of the last flush
    bfPhases,        \* phases the last bulk_flush went through
    bfFlushes,       \* flushes so far
    bfPc             \* "idle", "flushed", or "raised"
\* admin.py: one add-table command with several tables
VARIABLES
    tgGiven,         \* values of --trigger-arg on the command line
    tgOptions,       \* self.options: trigger_arg (a list object) and the flags
    tgHandler,       \* --handler, "none" without one
    tgCalls,         \* tgargs of each local_add_table call so far, in order
    tgLeft           \* tables of the command not handled yet
\* handlers/obfuscate.py: two source rows that differ in hidden data only
VARIABLES
    niTwin,          \* the other row of the pair; obfRow is the one at hand
    niOut,           \* per row of the pair, the output of each operation so far
    niRow,           \* which row of the pair is at hand: 1 or 2
    niPc             \* the next operation: "parse", "copy", "event", or "done"

replVars == <<tickLimit, lastTick, provState, db, fkeyDropped, copyNode, parallel_copies,
              pc, curTick, prevTick, pos, workState, pgqMin, dsyncBackup, mem,
              applied, copySnap, waitDone>>

batchVars == <<evTypes, evDone, ignore_truncate, sql_list, executed, used_plugins,
               rowBuf, touched>>

attrVars == <<attrs, local_tables, existing, sqlText, parsed, needResult, attrPc>>

shardVars == <<shardConf, shardNode, disable_replay, shardEv, shardSeen, shardApplied>>

loaderVars == <<ldPkOnly, ldStart, ldChain, pkey_ev_map, ldDest, ldPc>>

repairVars == <<rpFields, srcTab, dstTab, dumpSrc, dumpDst, src_ln, dst_ln, fixes,
                fixedTab, rpPc>>

adminVars == <<fcNeed, fcUsable, fcCreate, fcName, fcLoc, copy_node,
                provider_location, addPc>>

obfVars == <<obf_map, obfRow, obfFormat, obfReplay, obfCopy>>

tsVars == <<tsObj, tsCopy, tsTick, tsCalls, tsSeen>>

akVars == <<akKeys, akKeys0, akState, akTodo, akCur, fkey_list, akTx, akLog,
             npossible, akPc>>

csVars == <<csRow, csObj, csQueue, csCur, csWork, csRestored, csPc>>

plVars == <<plNode, plLocal, plInfo, plUsed, plCur, plLog, plLeft, plPc>>

slVars == <<slCfg, slState, slAdmits>>

sbVars == <<sbConf, sbShard, sbBatch, sbUsed, sbReads, sbTotal, sbAtFirst, sbApplied,
             sbPc>>

cpVars == <<cpParallel, cpWritten, block_buf, block_buf_len, send_pos, cpPipe, cpSent,
             rdBlocks, rdBuf, rdOut, rdState, cpPc>>

gsVars == <<gsRow, gsObj, gsCopies, gsTick, gsPrev, gsSeen>>

bfVars == <<bfGp, bfPolicy, bfAssert, dist_fields, bfKeys, bfOpMap, bfPhases,
             bfFlushes, bfPc>>

tgVars == <<tgGiven, tgOptions, tgHandler, tgCalls, tgLeft>>

niVars == <<niTwin, niOut, niRow, niPc>>

\* the tools that stand alone
moreVars == <<adminVars, obfVars, tsVars, akVars, csVars, plVars, slVars, sbVars, cpVars, gsVars, bfVars, tgVars, niVars>>

kitVars == <<shardVars, loaderVars, repairVars, moreVars>>

\* everything outside the table state machine
toolVars == <<batchVars, attrVars, kitVars>>

\* the table state machine and the tools of one batch, one script, one
\* cluster, one loader and one repair
oldVars == <<replVars, batchVars, attrVars, shardVars, loaderVars, repairVars>>

adminRest == <<oldVars, obfVars, tsVars, akVars, csVars, plVars, slVars, sbVars, cpVars, gsVars, bfVars, tgVars, niVars>>

obfRest == <<oldVars, adminVars, tsVars, akVars, csVars, plVars, slVars, sbVars, cpVars, gsVars, bfVars, tgVars, niVars>>

tsRest == <<oldVars, adminVars, obfVars, akVars, csVars, plVars, slVars, sbVars, cpVars, gsVars, bfVars, tgVars, niVars>>

akRest == <<oldVars, adminVars, obfVars, tsVars, csVars, plVars, slVars, sbVars, cpVars, gsVars, bfVars, tgVars, niVars>>

csRest == <<oldVars, adminVars, obfVars, tsVars, akVars, plVars, slVars, sbVars, cpVars, gsVars, bfVars, tgVars, niVars>>

plRest == <<oldVars, adminVars, obfVars, tsVars, akVars, csVars, slVars, sbVars, cpVars, gsVars, bfVars, tgVars, niVars>>

slRest == <<oldVars, adminVars, obfVars, tsVars, akVars, csVars, plVars, sbVars, cpVars, gsVars, bfVars, tgVars, niVars>>

sbRest == <<oldVars, adminVars, obfVars, tsVars, akVars, csVars, plVars, slVars, cpVars, gsVars, bfVars, tgVars, niVars>>

cpRest == <<oldVars, adminVars, obfVars, tsVars, akVars, csVars, plVars, slVars, sbVars, gsVars, bfVars, tgVars, niVars>>

gsRest == <<oldVars, adminVars, obfVars, tsVars, akVars, csVars, plVars, slVars, sbVars, cpVars, bfVars, tgVars, niVars>>

bfRest == <<oldVars, adminVars, obfVars, tsVars, akVars, csVars, plVars, slVars, sbVars, cpVars, gsVars, tgVars, niVars>>

tgRest == <<oldVars, adminVars, obfVars, tsVars, akVars, csVars, plVars, slVars, sbVars, cpVars, gsVars, bfVars, niVars>>

niRest == <<oldVars, adminVars, obfVars, tsVars, akVars, csVars, plVars, slVars, sbVars, cpVars, gsVars, bfVars, tgVars>>

vars == <<replVars, toolVars>>

\* ---------------------------------------------------------- provider queue
\* Every transaction writes one row to every table, so it leaves one event
\* per table, all with its txid.  Transactions commit one after the other:
\* tick b closes the batch holding txids (b-1)*EvPerTick+1 .. b*EvPerTick.
\* highest txid in the batches up to tick b
LastTxOf(b) == b * EvPerTick

\* batch (tick) whose events carry txid x
TickOfTx(x) == ((x - 1) \div EvPerTick) + 1

\* txid_current_snapshot(): xmax, the next txid to be assigned.  The
\* transactions of the open batch commit while the copy runs, so the
\* snapshot may see any number of them.
CurrentSnapshots == {LastTxOf(lastTick) + n + 1 : n \in 0..EvPerTick}

\* skytools.Snapshot.contains: txid is visible in the snapshot
SnapshotContains(snap, txid) == txid < snap

\* ------------------------------------------------------------- TableState
NewTableState ==
    [state |-> TABLE_MISSING, sync_tick_id |-> None, str_snapshot |-> None,
     last_snapshot_tick |-> None, ok_batch_count |-> 0, last_tick |-> 0,
     changed |-> FALSE]

change_snapshot(t, snap, tag_changed) ==
    IF t.str_snapshot = snap THEN t
    ELSE IF tag_changed
         THEN [t EXCEPT !.str_snapshot = snap, !.ok_batch_count = 0,
                        !.last_tick = NoTick, !.changed = TRUE]
         ELSE [t EXCEPT !.str_snapshot = snap]

change_state(t, state, tick_id) ==
    IF t.state = state /\ t.sync_tick_id = tick_id THEN t
    ELSE [t EXCEPT !.state = state, !.sync_tick_id = tick_id, !.changed = TRUE]

\* the merge_state text and custom_snapshot stored for the table
render_state(t) ==
    CASE t.state = TABLE_MISSING     -> [ms |-> "null", tick |-> 0]
      [] t.state = TABLE_IN_COPY     -> [ms |-> "in-copy", tick |-> 0]
      [] t.state = TABLE_CATCHING_UP -> [ms |-> "catching-up", tick |-> 0]
      [] t.state = TABLE_WANNA_SYNC  -> [ms |-> "wanna-sync", tick |-> t.sync_tick_id]
      [] t.state = TABLE_DO_SYNC     -> [ms |-> "do-sync", tick |-> t.sync_tick_id]
      [] t.state = TABLE_OK          -> [ms |-> "ok", tick |-> 0]

\* parse_state as it would be if it never took the tick of the row
parse_state_notick(t, row) ==
    [t EXCEPT !.state = CASE row.ms = "null"        -> TABLE_MISSING
                          [] row.ms = "in-copy"     -> TABLE_IN_COPY
                          [] row.ms = "catching-up" -> TABLE_CATCHING_UP
                          [] row.ms = "ok"          -> TABLE_OK
                          [] row.ms = "wanna-sync"  -> TABLE_WANNA_SYNC
                          [] row.ms = "do-sync"     -> TABLE_DO_SYNC]

\* parse_state: returns the object with state set; sync_tick_id is only
\* assigned for the two states that carry a tick
parse_state(t, row) ==
    CASE row.ms = "null"        -> [t EXCEPT !.state = TABLE_MISSING]
      [] row.ms = "in-copy"     -> [t EXCEPT !.state = TABLE_IN_COPY]
      [] row.ms = "catching-up" -> [t EXCEPT !.state = TABLE_CATCHING_UP]
      [] row.ms = "ok"          -> [t EXCEPT !.state = TABLE_OK]
      [] row.ms = "wanna-sync"  -> [t EXCEPT !.state = TABLE_WANNA_SYNC,
                                             !.sync_tick_id = row.tick]
      [] row.ms = "do-sync"     -> [t EXCEPT !.state = TABLE_DO_SYNC,
                                             !.sync_tick_id = row.tick]

loaded_state(t, row) ==
    [parse_state(change_snapshot(t, row.snap, FALSE), row) EXCEPT !.changed = FALSE]

\* the row save_table_state writes for a changed table
SavedRow(t) == [ms |-> render_state(t).ms, tick |-> render_state(t).tick,
                snap |-> t.str_snapshot]

StateOfRow(row) ==
    CASE row.ms = "null"        -> TABLE_MISSING
      [] row.ms = "in-copy"     -> TABLE_IN_COPY
      [] row.ms = "catching-up" -> TABLE_CATCHING_UP
      [] row.ms = "wanna-sync"  -> TABLE_WANNA_SYNC
      [] row.ms = "do-sync"     -> TABLE_DO_SYNC
      [] row.ms = "ok"          -> TABLE_OK

\* interesting() without the snapshot test
AcceptsNoSnapshot(t, txid, copy_thread, own) ==
    IF copy_thread
    THEN own /\ t.state \in {TABLE_CATCHING_UP, TABLE_DO_SYNC}
    ELSE t.state = TABLE_OK

\* interesting(): does the table want the event
Accepts(t, txid, copy_thread, own) ==
    /\ IF copy_thread
       THEN own /\ t.state \in {TABLE_CATCHING_UP, TABLE_DO_SYNC}
       ELSE t.state = TABLE_OK
    /\ (t.str_snapshot = None \/ ~SnapshotContains(t.str_snapshot, txid))

\* interesting() as it would be if it cleared the snapshot with the third
\* counted batch
AfterInteresting_third(t, txid, tick_id, copy_thread, own) ==
    IF ~Accepts(t, txid, copy_thread, own) \/ t.str_snapshot = None THEN t
    ELSE IF tick_id = t.last_tick THEN t
    ELSE LET u == [t EXCEPT !.last_tick = tick_id,
                            !.ok_batch_count = t.ok_batch_count + 1]
         IN IF u.ok_batch_count >= OkBatchLimit
            THEN change_snapshot(u, None, TRUE)
            ELSE u

\* interesting(): the object after the call
AfterInteresting(t, txid, tick_id, copy_thread, own) ==
    IF ~Accepts(t, txid, copy_thread, own) \/ t.str_snapshot = None THEN t
    ELSE IF tick_id = t.last_tick THEN t
    ELSE LET u == [t EXCEPT !.last_tick = tick_id,
                            !.ok_batch_count = t.ok_batch_count + 1]
         IN IF u.ok_batch_count > OkBatchLimit
            THEN change_snapshot(u, None, TRUE)
            ELSE u

gc_snapshot(t, copy_thread, prev_tick, cur_tick, no_lag) ==
    IF t.str_snapshot = None THEN t
    ELSE IF copy_thread /\ t.state # TABLE_CATCHING_UP THEN t
    ELSE IF ~copy_thread /\ t.state # TABLE_OK THEN t
    ELSE IF t.last_snapshot_tick = None
         THEN (IF no_lag THEN [t EXCEPT !.last_snapshot_tick = cur_tick] ELSE t)
    ELSE IF t.last_snapshot_tick < prev_tick
         THEN change_snapshot(t, None, TRUE)
    ELSE t

\* ---------------------------------------------------------------- helpers
Kind(p) == IF p = Main THEN "main" ELSE "copy"
IsCopy(p) == p # Main

\* load_table_state: every table object takes the stored row
load_table_state(m) == [t \in Tables |-> loaded_state(m[t], db[t])]

\* save_table_state: the rows of the changed tables, and the objects after
SavedDb(m, d) == [t \in Tables |-> IF m[t].changed THEN SavedRow(m[t]) ELSE d[t]]
SavedMem(m) == [t \in Tables |-> [m[t] EXCEPT !.changed = FALSE]]

\* Counter.get_copy_count: threaded_copy_tables is empty, one slot per table
get_copy_count(m) == Cardinality({t \in Tables : m[t].state \in CopyStates})

CountState(m, st) == Cardinality({t \in Tables : m[t].state = st})

\* copy_snapshot_cleanup: gc on every table of the list
CleanedMem(m, copy_thread, prev_tick, cur_tick, no_lag) ==
    [t \in Tables |-> gc_snapshot(m[t], copy_thread, prev_tick, cur_tick, no_lag)]

\* Between two rounds a worker reaches its table objects only through
\* load_table_state, whose loaded_state replaces state, snapshot and changed
\* whatever they were: the objects of a waiting worker are kept with the
\* fields that survive the load (sync_tick_id, last_snapshot_tick,
\* ok_batch_count, last_tick) and the others at their initial value.
AtRest(m) ==
    [t \in Tables |-> [m[t] EXCEPT !.state = TABLE_MISSING,
                                   !.str_snapshot = None,
                                   !.changed = FALSE]]

\* ------------------------------------------------------------------- Init
\* no batch is being followed event by event
BatchIdle ==
    /\ evTypes = {}
    /\ evDone = 0
    /\ ignore_truncate = [t \in Tables |-> FALSE]
    /\ sql_list = <<>>
    /\ executed = <<>>
    /\ used_plugins = {}
    /\ rowBuf = [t \in Tables |-> <<>>]
    /\ touched = {}

\* no ExecAttrs container is in use
AttrIdle ==
    /\ attrs = <<>>
    /\ local_tables = {}
    /\ existing = {}
    /\ sqlText = <<>>
    /\ parsed = [attrs |-> <<>>, error |-> FALSE]
    /\ needResult = "none"
    /\ attrPc = "idle"

\* no sharded cluster is being followed
ShardIdle ==
    /\ shardConf = [shard_mask |-> 0, shard_count |-> 1]
    /\ shardNode = <<>>
    /\ disable_replay = {}
    /\ shardEv = <<>>
    /\ shardSeen = {}
    /\ shardApplied = {}

\* no bulk loader is being followed
LoaderIdle ==
    /\ ldPkOnly = FALSE
    /\ ldStart = [row |-> <<>>, failed |-> FALSE]
    /\ ldChain = <<>>
    /\ pkey_ev_map = <<>>
    /\ ldDest = [row |-> <<>>, failed |-> FALSE]
    /\ ldPc = "idle"

\* no repair is running
RepairIdle ==
    /\ rpFields = 1
    /\ srcTab = <<>>
    /\ dstTab = <<>>
    /\ dumpSrc = <<>>
    /\ dumpDst = <<>>
    /\ src_ln = <<>>
    /\ dst_ln = <<>>
    /\ fixes = <<>>
    /\ fixedTab = <<>>
    /\ rpPc = "idle"

\* no add-table command is running
AdminIdle ==
    /\ fcNeed = {}
    /\ fcUsable = <<>>
    /\ fcCreate = FALSE
    /\ fcName = ""
    /\ fcLoc = 0
    /\ copy_node = ""
    /\ provider_location = 0
    /\ addPc = "idle"

\* no row is being obfuscated
ObfIdle ==
    /\ obf_map = <<>>
    /\ obfRow = <<>>
    /\ obfFormat = "none"
    /\ obfReplay = <<>>
    /\ obfCopy = <<>>

\* no single table object is being followed
TsIdle ==
    /\ tsObj = NewTableState
    /\ tsCopy = FALSE
    /\ tsTick = 0
    /\ tsCalls = 0
    /\ tsSeen = {}

\* no admission loop is being followed call by call
AkIdle ==
    /\ akKeys = {}
    /\ akKeys0 = {}
    /\ akState = <<>>
    /\ akTodo = <<>>
    /\ akCur = ""
    /\ fkey_list = <<>>
    /\ akTx = <<>>
    /\ akLog = <<>>
    /\ npossible = 0
    /\ akPc = "idle"

\* no copy worker is being followed pass by pass
CsIdle ==
    /\ csRow = <<>>
    /\ csObj = <<>>
    /\ csQueue = 0
    /\ csCur = 0
    /\ csWork = 0
    /\ csRestored = FALSE
    /\ csPc = "none"

\* no batch is being followed call by call
PlIdle ==
    /\ plNode = <<>>
    /\ plLocal = {}
    /\ plInfo = 0
    /\ plUsed = {}
    /\ plCur = <<>>
    /\ plLog = <<>>
    /\ plLeft = 0
    /\ plPc = "none"

\* no slot count is being followed
SlIdle ==
    /\ slCfg = <<>>
    /\ slState = <<>>
    /\ slAdmits = 0

\* no worker's shard info is being followed
SbIdle ==
    /\ sbConf = <<>>
    /\ sbShard = <<>>
    /\ sbBatch = 0
    /\ sbUsed = {}
    /\ sbReads = 0
    /\ sbTotal = 0
    /\ sbAtFirst = <<>>
    /\ sbApplied = {}
    /\ sbPc = "none"

\* no parallel copy is being followed
CpIdle ==
    /\ cpParallel = 0
    /\ cpWritten = <<>>
    /\ block_buf = <<>>
    /\ block_buf_len = 0
    /\ send_pos = 0
    /\ cpPipe = <<>>
    /\ cpSent = <<>>
    /\ rdBlocks = <<>>
    /\ rdBuf = <<>>
    /\ rdOut = <<>>
    /\ rdState = <<>>
    /\ cpPc = "none"

\* no table object is being followed over its copies
GsIdle ==
    /\ gsRow = <<>>
    /\ gsObj = <<>>
    /\ gsCopies = 0
    /\ gsTick = 0
    /\ gsPrev = 0
    /\ gsSeen = {}

\* no bulk loader is being flushed
BfIdle ==
    /\ bfGp = FALSE
    /\ bfPolicy = <<>>
    /\ bfAssert = FALSE
    /\ dist_fields = <<>>
    /\ bfKeys = <<>>
    /\ bfOpMap = <<>>
    /\ bfPhases = <<>>
    /\ bfFlushes = 0
    /\ bfPc = "off"

\* no add-table command is being followed table by table
TgIdle ==
    /\ tgGiven = <<>>
    /\ tgOptions = <<>>
    /\ tgHandler = "none"
    /\ tgCalls = <<>>
    /\ tgLeft = 0

\* no pair of rows is being obfuscated
NiIdle ==
    /\ niTwin = <<>>
    /\ niOut = <<>>
    /\ niRow = 0
    /\ niPc = "off"

MoreIdle ==
    /\ AdminIdle
    /\ ObfIdle
    /\ TsIdle
    /\ AkIdle
    /\ CsIdle
    /\ PlIdle
    /\ SlIdle
    /\ SbIdle
    /\ CpIdle
    /\ GsIdle
    /\ BfIdle
    /\ TgIdle
    /\ NiIdle

KitIdle ==
    /\ ShardIdle
    /\ LoaderIdle
    /\ RepairIdle
    /\ MoreIdle

ToolsIdle ==
    /\ BatchIdle
    /\ AttrIdle
    /\ KitIdle

\* the subscriber right after the tables were added: every table missing,
\* the main worker registered at tick 0, no copy worker yet
InitLocal ==
    /\ lastTick = 1
    /\ db = [t \in Tables |-> [ms |-> "null", tick |-> 0, snap |-> None]]
    /\ fkeyDropped = [t \in Tables |-> FALSE]
    /\ pc = [p \in Procs |-> IF p = Main THEN "idle" ELSE "none"]
    /\ curTick = [p \in Procs |-> 0]
    /\ prevTick = [p \in Procs |-> 0]
    /\ pos = [p \in Procs |-> 0]
    /\ workState = [p \in Procs |-> 1]
    /\ pgqMin = [p \in Procs |-> FALSE]
    /\ dsyncBackup = <<>>
    /\ mem = [p \in Procs |-> [t \in Tables |-> NewTableState]]
    /\ applied = [k \in {"main", "copy"} |-> [t \in Tables |-> {}]]
    /\ copySnap = [t \in Tables |-> None]
    /\ waitDone = FALSE

\* every table is ok on the provider and is copied from it
Init ==
    /\ InitLocal
    /\ ToolsIdle
    /\ tickLimit = MaxTick
    /\ parallel_copies \in 1..MaxParallel
    /\ provState = [t \in Tables |-> "ok"]
    /\ copyNode = {}

\* the replay workers at rest, for the runs that are about something else
ReplIdle ==
    /\ InitLocal
    /\ tickLimit = 1
    /\ parallel_copies = 1
    /\ provState = [t \in Tables |-> "ok"]
    /\ copyNode = {}

\* the replay workers and the tools of one batch, one script, one cluster,
\* one loader and one repair at rest
OldIdle ==
    /\ ReplIdle
    /\ BatchIdle
    /\ AttrIdle
    /\ ShardIdle
    /\ LoaderIdle
    /\ RepairIdle

\* all is at rest but the one tool
AdminAlone == OldIdle /\ ObfIdle /\ TsIdle /\ AkIdle /\ CsIdle /\ PlIdle /\ SlIdle /\ SbIdle /\ CpIdle /\ GsIdle /\ BfIdle /\ TgIdle /\ NiIdle

ObfAlone == OldIdle /\ AdminIdle /\ TsIdle /\ AkIdle /\ CsIdle /\ PlIdle /\ SlIdle /\ SbIdle /\ CpIdle /\ GsIdle /\ BfIdle /\ TgIdle /\ NiIdle

TsAlone == OldIdle /\ AdminIdle /\ ObfIdle /\ AkIdle /\ CsIdle /\ PlIdle /\ SlIdle /\ SbIdle /\ CpIdle /\ GsIdle /\ BfIdle /\ TgIdle /\ NiIdle

AkAlone == OldIdle /\ AdminIdle /\ ObfIdle /\ TsIdle /\ CsIdle /\ PlIdle /\ SlIdle /\ SbIdle /\ CpIdle /\ GsIdle /\ BfIdle /\ TgIdle /\ NiIdle

CsAlone == OldIdle /\ AdminIdle /\ ObfIdle /\ TsIdle /\ AkIdle /\ PlIdle /\ SlIdle /\ SbIdle /\ CpIdle /\ GsIdle /\ BfIdle /\ TgIdle /\ NiIdle

PlAlone == OldIdle /\ AdminIdle /\ ObfIdle /\ TsIdle /\ AkIdle /\ CsIdle /\ SlIdle /\ SbIdle /\ CpIdle /\ GsIdle /\ BfIdle /\ TgIdle /\ NiIdle

SlAlone == OldIdle /\ AdminIdle /\ ObfIdle /\ TsIdle /\ AkIdle /\ CsIdle /\ PlIdle /\ SbIdle /\ CpIdle /\ GsIdle /\ BfIdle /\ TgIdle /\ NiIdle

SbAlone == OldIdle /\ AdminIdle /\ ObfIdle /\ TsIdle /\ AkIdle /\ CsIdle /\ PlIdle /\ SlIdle /\ CpIdle /\ GsIdle /\ BfIdle /\ TgIdle /\ NiIdle

CpAlone == OldIdle /\ AdminIdle /\ ObfIdle /\ TsIdle /\ AkIdle /\ CsIdle /\ PlIdle /\ SlIdle /\ SbIdle /\ GsIdle /\ BfIdle /\ TgIdle /\ NiIdle

GsAlone == OldIdle /\ AdminIdle /\ ObfIdle /\ TsIdle /\ AkIdle /\ CsIdle /\ PlIdle /\ SlIdle /\ SbIdle /\ CpIdle /\ BfIdle /\ TgIdle /\ NiIdle

BfAlone == OldIdle /\ AdminIdle /\ ObfIdle /\ TsIdle /\ AkIdle /\ CsIdle /\ PlIdle /\ SlIdle /\ SbIdle /\ CpIdle /\ GsIdle /\ TgIdle /\ NiIdle

TgAlone == OldIdle /\ AdminIdle /\ ObfIdle /\ TsIdle /\ AkIdle /\ CsIdle /\ PlIdle /\ SlIdle /\ SbIdle /\ CpIdle /\ GsIdle /\ BfIdle /\ NiIdle

NiAlone == OldIdle /\ AdminIdle /\ ObfIdle /\ TsIdle /\ AkIdle /\ CsIdle /\ PlIdle /\ SlIdle /\ SbIdle /\ CpIdle /\ GsIdle /\ BfIdle /\ TgIdle

\* any state of the tables on the provider, any tables with copy_node,
\* and the default of one copy at a time
InitAdmit ==
    /\ InitLocal
    /\ ToolsIdle
    /\ tickLimit = AdmitTicks
    /\ parallel_copies = 1
    /\ provState \in [Tables -> ProvStates]
    /\ copyNode \in SUBSET Tables

\* as Init, with a queue that stays busy longer
InitRace ==
    /\ InitLocal
    /\ ToolsIdle
    /\ tickLimit = RaceTicks
    /\ parallel_copies \in 1..MaxParallel
    /\ provState = [t \in Tables |-> "ok"]
    /\ copyNode = {}

\* as Init, with pgq_min_count or pgq_min_interval set in the configuration
\* of the workers
InitTune ==
    /\ lastTick = 1
    /\ db = [t \in Tables |-> [ms |-> "null", tick |-> 0, snap |-> None]]
    /\ fkeyDropped = [t \in Tables |-> FALSE]
    /\ pc = [p \in Procs |-> IF p = Main THEN "idle" ELSE "none"]
    /\ curTick = [p \in Procs |-> 0]
    /\ prevTick = [p \in Procs |-> 0]
    /\ pos = [p \in Procs |-> 0]
    /\ workState = [p \in Procs |-> 1]
    /\ pgqMin = [p \in Procs |-> TRUE]
    /\ dsyncBackup = <<>>
    /\ mem = [p \in Procs |-> [t \in Tables |-> NewTableState]]
    /\ applied = [k \in {"main", "copy"} |-> [t \in Tables |-> {}]]
    /\ copySnap = [t \in Tables |-> None]
    /\ waitDone = FALSE
    /\ ToolsIdle
    /\ tickLimit = TuneTicks
    /\ parallel_copies \in 1..MaxParallel
    /\ provState = [t \in Tables |-> "ok"]
    /\ copyNode = {}

\* the same with one copy at a time and HandOffTicks ticks: a copy worker
\* that accumulates batches may fall behind and jump over ticks
InitHandOff ==
    /\ lastTick = 1
    /\ db = [t \in Tables |-> [ms |-> "null", tick |-> 0, snap |-> None]]
    /\ fkeyDropped = [t \in Tables |-> FALSE]
    /\ pc = [p \in Procs |-> IF p = Main THEN "idle" ELSE "none"]
    /\ curTick = [p \in Procs |-> 0]
    /\ prevTick = [p \in Procs |-> 0]
    /\ pos = [p \in Procs |-> 0]
    /\ workState = [p \in Procs |-> 1]
    /\ pgqMin \in [Procs -> BOOLEAN]
    /\ dsyncBackup = <<>>
    /\ mem = [p \in Procs |-> [t \in Tables |-> NewTableState]]
    /\ applied = [k \in {"main", "copy"} |-> [t \in Tables |-> {}]]
    /\ copySnap = [t \in Tables |-> None]
    /\ waitDone = FALSE
    /\ ToolsIdle
    /\ tickLimit = HandOffTicks
    /\ parallel_copies = 1
    /\ provState = [t \in Tables |-> "ok"]
    /\ copyNode = {}

\* --------------------------------------------------------------- provider
\* The ticker: the main worker keeps up with it, so that a tick is made
\* once the main worker has finished the batch of the one before.  Copy
\* workers may fall behind by any number of ticks.
ProviderTick ==
    /\ lastTick < tickLimit
    /\ lastTick = pos[Main]
    /\ lastTick' = lastTick + 1
    /\ UNCHANGED <<tickLimit, provState, db, fkeyDropped, copyNode, parallel_copies,
                   pc, curTick, prevTick, pos, workState, pgqMin, dsyncBackup, mem,
                   applied, copySnap, waitDone>>
    /\ UNCHANGED toolVars

\* the ticker of the provider makes a tick while the main worker is inside
\* a batch: the queue runs ahead of the consumers
TickerTick ==
    /\ lastTick < tickLimit
    /\ pc[Main] \in {"sync", "sleep"}
    /\ lastTick' = lastTick + 1
    /\ UNCHANGED <<tickLimit, provState, db, fkeyDropped, copyNode, parallel_copies,
                   pc, curTick, prevTick, pos, workState, pgqMin, dsyncBackup, mem,
                   applied, copySnap, waitDone>>
    /\ UNCHANGED toolVars

\* ------------------------------------------------------- consumer batches
\* ticks a new batch may end at: the next one, or a later one while the
\* consumer accumulates (pgq_min_count / pgq_min_interval)
BatchEnds(p) == IF pgqMin[p] THEN (pos[p] + 1)..lastTick ELSE {pos[p] + 1}

\* process_remote_batch up to load_table_state
BeginBatch(p) ==
    /\ pc[p] = "idle"
    /\ pos[p] < lastTick
    /\ \E c \in BatchEnds(p) :
          /\ curTick' = [curTick EXCEPT ![p] = c]
          /\ prevTick' = [prevTick EXCEPT ![p] = pos[p]]
    /\ mem' = [mem EXCEPT ![p] = load_table_state(mem[p])]
    /\ pc' = [pc EXCEPT ![p] = "sync"]
    /\ UNCHANGED <<tickLimit, lastTick, provState, db, fkeyDropped, copyNode, parallel_copies,
                   pos, workState, pgqMin, dsyncBackup,
                   applied, copySnap, waitDone>>
    /\ UNCHANGED toolVars

\* sync_tables after SYNC_LOOP: sleep, then load_table_state again
Reload(p) ==
    /\ pc[p] = "sleep"
    /\ mem' = [mem EXCEPT ![p] = load_table_state(mem[p])]
    /\ pc' = [pc EXCEPT ![p] = "sync"]
    /\ UNCHANGED <<tickLimit, lastTick, provState, db, fkeyDropped, copyNode, parallel_copies,
                   curTick, prevTick, pos, workState, pgqMin, dsyncBackup,
                   applied, copySnap, waitDone>>
    /\ UNCHANGED toolVars

\* ---------------------------------------------------------- event replay
\* handle_data_event on the events of one table with txids x..hi, in order:
\* the object after them and the txids passed to process_event
RECURSIVE RunEvents(_, _, _, _, _, _)
RunEvents(t, x, hi, tick_id, copy_thread, own) ==
    IF x > hi THEN [t |-> t, acc |-> {}]
    ELSE LET a == Accepts(t, x, copy_thread, own)
             r == RunEvents(AfterInteresting(t, x, tick_id, copy_thread, own),
                            x + 1, hi, tick_id, copy_thread, own)
         IN [t |-> r.t,
             acc |-> (IF a THEN {x} ELSE {}) \cup r.acc]

\* the event loop of process_remote_batch for process p holding objects m
Replay(p, m) ==
    [t \in Tables |->
        RunEvents(m[t], LastTxOf(prevTick[p]) + 1, LastTxOf(curTick[p]),
                  curTick[p], IsCopy(p), t = p)]

\* result of work(): 1 after a batch; the loop calls work() again at once,
\* which returns 0 when the queue has no tick beyond the batch
NextWork(done_tick) == IF lastTick = done_tick THEN 0 ELSE 1

\* process_remote_batch after sync_tables returned SYNC_OK, for process p
\* holding objects m: copy_snapshot_cleanup, the event loop, the final
\* save_table_state and the commit of the batch
FinishBatch(p, m) ==
    LET mc == CleanedMem(m, IsCopy(p), prevTick[p], curTick[p], workState[p] = 0)
        d1 == SavedDb(mc, db)
        res == Replay(p, SavedMem(mc))
        m1 == [t \in Tables |-> res[t].t]
    IN /\ applied' = [applied EXCEPT ![Kind(p)] =
                         [t \in Tables |-> @[t] \cup res[t].acc]]
       /\ db' = SavedDb(m1, d1)
       /\ mem' = [mem EXCEPT ![p] = AtRest(m1)]
       /\ pos' = [pos EXCEPT ![p] = curTick[p]]
       /\ pc' = [pc EXCEPT ![p] = "idle"]

\* ------------------------------------------------- sync_from_main_thread
\* dsync_ok that forgets the tick at which the thresholds were cleared
DsyncOkAtOnce(min_active, backup, cur_tick) == ~min_active

\* dsync_ok: small batches are being delivered
DsyncOk(min_active, backup, cur_tick) ==
    /\ ~min_active
    /\ ~(backup # <<>> /\ backup[1] >= cur_tick)

\* a wanna-sync table the main worker is not behind of
DsyncReady(t, cur_tick) ==
    /\ t.state = TABLE_WANNA_SYNC
    /\ t.sync_tick_id # None
    /\ cur_tick >= t.sync_tick_id

\* do-sync stored with the tick the copy worker asked for
DsyncTickWanna(t, cur_tick) == t.sync_tick_id

\* the tick the main worker stores with do-sync
DsyncTick(t, cur_tick) == cur_tick

\* an admission loop without the provider check
SourceOkAny(attr_copy_node, pstate) == TRUE

\* the provider check of the admission loop
SourceOk(attr_copy_node, pstate) ==
    attr_copy_node \/ pstate = "ok"

\* the admission loop over the missing tables from index i on, n slots left
RECURSIVE Admit(_, _, _)
Admit(i, n, m) ==
    IF i > Len(TableSeq) THEN {}
    ELSE LET t == TableSeq[i]
         IN IF m[t].state = TABLE_MISSING /\ SourceOk(t \in copyNode, provState[t])
            THEN (IF n = 0 THEN {} ELSE {t} \cup Admit(i + 1, n - 1, m))
            ELSE Admit(i + 1, n, m)

\* npossible that forgets the running copies
NPossibleAll(m) == parallel_copies

\* npossible of the admission step
NPossible(m) == parallel_copies - get_copy_count(m)

Admitted(m) ==
    IF CountState(m, TABLE_MISSING) > 0 /\ NPossible(m) > 0
    THEN Admit(1, NPossible(m), m) ELSE {}

\* tables the pass moves to do-sync
Promoted(m, cur_tick) ==
    IF DsyncOk(pgqMin[Main], dsyncBackup, cur_tick)
    THEN {t \in Tables : DsyncReady(m[t], cur_tick)} ELSE {}

MainRet(m, cur_tick) ==
    IF CountState(m, TABLE_DO_SYNC) > 0 \/ Promoted(m, cur_tick) # {} \/ Admitted(m) # {}
    THEN SYNC_LOOP ELSE SYNC_OK

\* one pass of sync_from_main_thread.  On SYNC_LOOP the worker sleeps; on
\* SYNC_OK it goes on with the batch to its commit.
MainPass ==
    /\ pc[Main] = "sync"
    /\ LET m == mem[Main]
           cur == curTick[Main]
           need_dsync == /\ ~DsyncOk(pgqMin[Main], dsyncBackup, cur)
                         /\ \E t \in Tables : DsyncReady(m[t], cur)
           m1 == [t \in Tables |->
                    IF t \in Promoted(m, cur)
                    THEN change_state(m[t], TABLE_DO_SYNC, DsyncTick(m[t], cur))
                    ELSE IF t \in Admitted(m)
                    THEN change_state(m[t], TABLE_IN_COPY, None)
                    ELSE m[t]]
       IN /\ IF MainRet(m, cur) = SYNC_OK
             THEN /\ FinishBatch(Main, m1)
                  /\ workState' = [workState EXCEPT ![Main] = NextWork(cur)]
             ELSE /\ db' = SavedDb(m1, db)
                  /\ mem' = [mem EXCEPT ![Main] = AtRest(m1)]
                  /\ pc' = [p \in Procs |->
                              IF p = Main THEN "sleep"
                              ELSE IF p \in Admitted(m) THEN "new"
                              ELSE pc[p]]
                  /\ UNCHANGED <<applied, pos, workState>>
          /\ fkeyDropped' = [t \in Tables |-> fkeyDropped[t] \/ t \in Admitted(m)]
          /\ IF need_dsync
             THEN IF pgqMin[Main]
                  THEN /\ dsyncBackup' = <<cur, pgqMin[Main]>>
                       /\ pgqMin' = [pgqMin EXCEPT ![Main] = FALSE]
                  ELSE UNCHANGED <<dsyncBackup, pgqMin>>
             ELSE IF dsyncBackup # <<>>
                  THEN /\ pgqMin' = [pgqMin EXCEPT ![Main] = dsyncBackup[2]]
                       /\ dsyncBackup' = <<>>
                  ELSE UNCHANGED <<dsyncBackup, pgqMin>>
    /\ UNCHANGED <<tickLimit, lastTick, provState, copyNode, parallel_copies,
                   curTick, prevTick, copySnap, waitDone>>
    /\ UNCHANGED toolVars

\* ------------------------------------------------- sync_from_copy_thread
\* a hand-over that does not wait for the tick
HandOverEarly(cur_tick, sync_tick_id) == cur_tick <= sync_tick_id

\* the copy worker has reached the tick the main worker waits at
HandOver(cur_tick, sync_tick_id) == cur_tick = sync_tick_id

\* a hand-over that sends the table back
HandOverBack == TABLE_CATCHING_UP

\* the state a copy worker stores when it hands the table over
HandOverState == TABLE_OK

\* a copy worker that keeps its pgq_min_count and pgq_min_interval
CopyMinKept(own, min_active) == min_active

\* the copy worker's pgq_min_count / pgq_min_interval after the pass: do-sync
\* sets both to None
CopyMin(own, min_active) ==
    IF own.state = TABLE_DO_SYNC THEN FALSE ELSE min_active

\* result of one pass for the worker's own table object
CopyRet(own, cur_tick, work_state) ==
    CASE own.state = TABLE_DO_SYNC ->
            (IF own.sync_tick_id = None THEN SYNC_RAISE
             ELSE IF HandOver(cur_tick, own.sync_tick_id) THEN SYNC_EXIT
             ELSE IF cur_tick < own.sync_tick_id THEN SYNC_OK
             ELSE SYNC_RAISE)
      [] own.state = TABLE_WANNA_SYNC -> SYNC_LOOP
      [] own.state = TABLE_CATCHING_UP ->
            (IF work_state # 0 THEN SYNC_OK ELSE SYNC_LOOP)
      [] own.state = TABLE_IN_COPY -> SYNC_LOOP
      [] OTHER -> SYNC_EXIT

\* do_copy as it would be if it stored the snapshot and left the state
do_copy_in_copy(own, snapshot) == change_snapshot(own, snapshot, TRUE)

\* do_copy: bulk copy under a provider snapshot, then catching-up with
\* that snapshot
do_copy(own, snapshot) ==
    change_snapshot(change_state(own, TABLE_CATCHING_UP, None), snapshot, TRUE)

\* the worker's own table object after one pass
CopyOwn(own, cur_tick, work_state, snapshot) ==
    CASE own.state = TABLE_DO_SYNC /\ CopyRet(own, cur_tick, work_state) = SYNC_EXIT ->
            change_state(own, HandOverState, None)
      [] own.state = TABLE_CATCHING_UP /\ work_state = 0 ->
            change_state(own, TABLE_WANNA_SYNC, cur_tick)
      [] own.state = TABLE_IN_COPY -> do_copy(own, snapshot)
      [] OTHER -> own

\* one pass of sync_from_copy_thread.  On SYNC_LOOP the worker sleeps, on
\* SYNC_OK it goes on with the batch to its commit, on SYNC_EXIT it is
\* about to exit, and an exception makes it retry the batch.
CopyPass(w) ==
    /\ IsCopy(w)
    /\ pc[w] = "sync"
    /\ \E snapshot \in CurrentSnapshots :
       LET m == mem[w]
           own == m[w]
           cur == curTick[w]
           ret == CopyRet(own, cur, workState[w])
           m1 == [m EXCEPT ![w] = CopyOwn(own, cur, workState[w], snapshot)]
       IN /\ (own.state # TABLE_IN_COPY => snapshot = LastTxOf(lastTick) + 1)
          /\ IF ret = SYNC_OK
             THEN /\ FinishBatch(w, m1)
                  /\ workState' = [workState EXCEPT ![w] = NextWork(cur)]
             ELSE /\ db' = SavedDb(m1, db)
                  /\ mem' = [mem EXCEPT ![w] = AtRest(m1)]
                  /\ pc' = [pc EXCEPT ![w] =
                              CASE ret = SYNC_LOOP -> "sleep"
                                [] ret = SYNC_EXIT -> "exiting"
                                [] OTHER -> "idle"]
                  /\ workState' = [workState EXCEPT ![w] =
                              IF ret = SYNC_RAISE THEN -1
                              ELSE IF own.state = TABLE_IN_COPY THEN 1
                              ELSE @]
                  /\ UNCHANGED <<applied, pos>>
          /\ pgqMin' = [pgqMin EXCEPT ![w] = CopyMin(own, @)]
          /\ copySnap' = [copySnap EXCEPT ![w] =
                      IF own.state = TABLE_IN_COPY THEN snapshot ELSE @]
    /\ UNCHANGED <<tickLimit, lastTick, provState, fkeyDropped, copyNode, parallel_copies,
                   curTick, prevTick, dsyncBackup, waitDone>>
    /\ UNCHANGED toolVars

\* first work() of a launched copy worker: it registers its consumer at the
\* newest tick of the queue and finds no batch yet
CopyRegister(w) ==
    /\ IsCopy(w)
    /\ pc[w] = "new"
    /\ pos' = [pos EXCEPT ![w] = lastTick]
    /\ workState' = [workState EXCEPT ![w] = 0]
    /\ pc' = [pc EXCEPT ![w] = "idle"]
    /\ UNCHANGED <<tickLimit, lastTick, provState, db, fkeyDropped, copyNode, parallel_copies,
                   curTick, prevTick, pgqMin, dsyncBackup, mem,
                   applied, copySnap, waitDone>>
    /\ UNCHANGED toolVars

\* sync_tables on SYNC_EXIT: unregister, commit, sys.exit(0); the pidfile
\* of the worker goes away
CopyExit(w) ==
    /\ IsCopy(w)
    /\ pc[w] = "exiting"
    /\ pc' = [pc EXCEPT ![w] = "exited"]
    /\ mem' = [mem EXCEPT ![w] = [t \in Tables |-> NewTableState]]
    /\ curTick' = [curTick EXCEPT ![w] = 0]
    /\ prevTick' = [prevTick EXCEPT ![w] = 0]
    /\ pos' = [pos EXCEPT ![w] = 0]
    /\ workState' = [workState EXCEPT ![w] = 1]
    /\ UNCHANGED <<tickLimit, lastTick, provState, db, fkeyDropped, copyNode, parallel_copies,
                   pgqMin, dsyncBackup,
                   applied, copySnap, waitDone>>
    /\ UNCHANGED toolVars

\* -------------------------------------------------------- wait_for_sync
\* a poll that is content with one table in ok
WaitSyncAny(rows) == Cardinality({t \in Tables : rows[t].ms = "ok"}) > 0

\* cur_count == 0: no local table has a merge_state other than ok
WaitSyncDone(rows) == Cardinality({t \in Tables : rows[t].ms # "ok"}) = 0

\* one poll of wait_for_sync
WaitSyncPoll ==
    /\ ~waitDone
    /\ waitDone' = WaitSyncDone(db)
    /\ UNCHANGED <<tickLimit, lastTick, provState, db, fkeyDropped, copyNode,
                   parallel_copies, pc, curTick, prevTick, pos, workState,
                   pgqMin, dsyncBackup, mem, applied, copySnap>>
    /\ UNCHANGED toolVars

\* ------------------------------------------- one batch, event by event
\* The rest of process_remote_batch after sync_tables returned SYNC_OK,
\* taken one call at a time: copy_snapshot_cleanup, then one step per
\* event, then flush_sql, finish_batch and the last save_table_state,
\* then the commit by the consumer framework.  Event types the worker
\* passes on to the cascade framework execute nothing and are left out.
DataTypes == {"I", "U", "D"}
MetaTypes == {"londiste.add-table", "londiste.remove-table",
              "londiste.remove-seq", "londiste.update-seq"}
AllTypes == DataTypes \cup {"R", "EXECUTE"} \cup MetaTypes

SqlLimit == 200       \* apply_sql: statements sent in one execute()
ExecSkipAbove == 200  \* handle_execute_event: ret_code > 200 skips the script

\* ret_code of londiste.execute_start: run the script, or it has run already
RetCodes == {200, 201, 301}

\* need_execute: true, false, or an exception
NeedResults == {"yes", "no", "raise"}

\* the batch is the one closed by tick 3; the snapshots of earlier copies
\* have xmax 2, so that txid 1 is inside them and txid 2 is not
BatchTick == 3
BatchSnap == 2
BatchTxids == {1, 2}

\* table t1 has the default handler, t2 the dispatch handler with the
\* direct loader, which keeps its rows until finish_batch
HandlerOf(t) == IF t = TableSeq[1] THEN "londiste" ELSE "dispatch"

\* what the cursor executes, tagged with the event it was made for
Stmt(ev, op) == [ev |-> ev, op |-> op]

BatchState == [sql_list |-> sql_list, executed |-> executed,
               used_plugins |-> used_plugins, rowBuf |-> rowBuf, failed |-> FALSE]

flush_sql(st) ==
    [st EXCEPT !.executed = st.executed \o st.sql_list, !.sql_list = <<>>]

Execute(st, stmt) == [st EXCEPT !.executed = Append(st.executed, stmt)]

apply_sql(st, stmt, work_state) ==
    LET limit == IF work_state = -1 THEN 0 ELSE SqlLimit
        s1 == [st EXCEPT !.sql_list = Append(st.sql_list, stmt)]
    IN IF Len(s1.sql_list) >= limit THEN flush_sql(s1) ELSE s1

\* handle_data_event, after interesting() gave `wanted`
handle_data_event(st, ev, t, wanted, work_state) ==
    IF ~wanted THEN st
    ELSE LET s1 == [st EXCEPT !.used_plugins = st.used_plugins \cup {t}]
         IN IF HandlerOf(t) = "dispatch"
            THEN [s1 EXCEPT !.rowBuf[t] = Append(s1.rowBuf[t], Stmt(ev, "row"))]
            ELSE apply_sql(s1, Stmt(ev, "sql"), work_state)

\* handle_truncate_event, after interesting() gave `wanted`
handle_truncate_event(st, ev, t, wanted) ==
    IF ~wanted THEN st
    ELSE LET s1 == [st EXCEPT !.used_plugins = st.used_plugins \cup {t}]
         IN IF ignore_truncate[t] THEN s1
            ELSE Execute(flush_sql(s1), Stmt(ev, "truncate"))

\* an EXECUTE handler that closes the journal entry also for a skipped script
handle_execute_closing(st, ev, copy_thread, ret, need) ==
    IF copy_thread THEN st
    ELSE LET s1 == Execute(Execute(st, Stmt(ev, "role_local")),
                           Stmt(ev, "execute_start"))
         IN IF need = "raise" /\ ret <= ExecSkipAbove THEN [s1 EXCEPT !.failed = TRUE]
            ELSE LET s2 == IF need = "yes" /\ ret <= ExecSkipAbove
                           THEN Execute(s1, Stmt(ev, "stmt")) ELSE s1
                 IN Execute(Execute(s2, Stmt(ev, "execute_finish")),
                            Stmt(ev, "role_replica"))

\* handle_execute_event: ret is the ret_code of execute_start, need the
\* outcome of need_execute
handle_execute_event(st, ev, copy_thread, ret, need) ==
    IF copy_thread THEN st
    ELSE LET s1 == Execute(Execute(st, Stmt(ev, "role_local")),
                           Stmt(ev, "execute_start"))
         IN IF ret > ExecSkipAbove
            THEN Execute(s1, Stmt(ev, "role_replica"))
            ELSE IF need = "raise" THEN [s1 EXCEPT !.failed = TRUE]
            ELSE LET s2 == IF need = "yes" THEN Execute(s1, Stmt(ev, "stmt")) ELSE s1
                 IN Execute(Execute(s2, Stmt(ev, "execute_finish")),
                            Stmt(ev, "role_replica"))

\* add_set_table, remove_set_table, remove_set_seq, update_seq: one call
\* of the matching londiste.global_* function; update_seq does nothing on
\* a copy worker
handle_meta_event(st, ev, type, copy_thread) ==
    IF type = "londiste.update-seq" /\ copy_thread THEN st
    ELSE Execute(st, Stmt(ev, "meta"))

process_remote_event(st, ev, type, t, wanted, copy_thread, work_state, ret, need) ==
    CASE type \in DataTypes -> handle_data_event(st, ev, t, wanted, work_state)
      [] type = "R" -> handle_truncate_event(flush_sql(st), ev, t, wanted)
      [] type = "EXECUTE" ->
            handle_execute_event(flush_sql(st), ev, copy_thread, ret, need)
      [] type \in MetaTypes -> handle_meta_event(flush_sql(st), ev, type, copy_thread)

\* finish_batch of the handlers in use: the dispatch handler flushes its
\* loader, the default handler has nothing to do
RECURSIVE finish_batch(_, _)
finish_batch(st, i) ==
    IF i > Len(TableSeq) THEN st
    ELSE LET t == TableSeq[i]
             s1 == IF t \in st.used_plugins /\ HandlerOf(t) = "dispatch"
                   THEN [st EXCEPT !.executed = st.executed \o st.rowBuf[t]]
                   ELSE st
         IN finish_batch(s1, i + 1)

\* a last save that writes nothing
SaveNothing(m, d) == d

\* the save_table_state that ends process_remote_batch
SaveFinal(m, d) == SavedDb(m, d)

\* a table object as loaded: state s, and either no snapshot or the
\* snapshot with its tracking fields
BatchObject(s, sn, lt, c) ==
    [NewTableState EXCEPT !.state = s,
                          !.sync_tick_id = IF s = TABLE_DO_SYNC THEN BatchTick + 1 ELSE None,
                          !.str_snapshot = sn,
                          !.last_snapshot_tick = lt,
                          !.ok_batch_count = c,
                          !.last_tick = IF c = 0 THEN 0 ELSE BatchTick - 1]

BatchObjects ==
    {BatchObject(s, None, None, 0) :
        s \in {TABLE_CATCHING_UP, TABLE_DO_SYNC, TABLE_OK}}
    \cup
    {BatchObject(s, BatchSnap, lt, c) :
        s \in {TABLE_CATCHING_UP, TABLE_DO_SYNC, TABLE_OK},
        lt \in {None, 1}, c \in {0, OkBatchLimit}}

\* table lists with which sync_tables returns SYNC_OK to worker p: the
\* main worker sees no do-sync, a copy worker has its table in catching-up
\* or in do-sync at a later tick
BatchTables(p) ==
    {m \in [Tables -> BatchObjects] :
        \A t \in Tables :
            IF t = p THEN m[t].state \in {TABLE_CATCHING_UP, TABLE_DO_SYNC}
            ELSE m[t].state \in {TABLE_CATCHING_UP, TABLE_OK}}

\* worker p holds the table objects m, loaded from the rows as stored, and
\* has come back from sync_tables
InitBatchOf(p, m, ws) ==
    /\ tickLimit = BatchTick
    /\ lastTick = BatchTick
    /\ provState = [t \in Tables |-> "ok"]
    /\ db = [t \in Tables |-> SavedRow(m[t])]
    /\ fkeyDropped = [t \in Tables |-> FALSE]
    /\ copyNode = {}
    /\ parallel_copies = 1
    /\ pc = [q \in Procs |-> IF q = p THEN "cleanup" ELSE "none"]
    /\ curTick = [q \in Procs |-> IF q = p THEN BatchTick ELSE 0]
    /\ prevTick = [q \in Procs |-> IF q = p THEN BatchTick - 1 ELSE 0]
    /\ pos = [q \in Procs |-> IF q = p THEN BatchTick - 1 ELSE 0]
    /\ workState = [q \in Procs |-> IF q = p THEN ws ELSE 1]
    /\ pgqMin = [q \in Procs |-> FALSE]
    /\ dsyncBackup = <<>>
    /\ mem = [q \in Procs |-> IF q = p THEN m ELSE [t \in Tables |-> NewTableState]]
    /\ applied = [k \in {"main", "copy"} |-> [t \in Tables |-> {}]]
    /\ copySnap = [t \in Tables |-> None]
    /\ waitDone = FALSE
    /\ evDone = 0
    /\ sql_list = <<>>
    /\ executed = <<>>
    /\ used_plugins = {}
    /\ rowBuf = [t \in Tables |-> <<>>]
    /\ touched = {}
    /\ AttrIdle
    /\ KitIdle

\* a batch of row events for tables in any state of their snapshot tracking
InitBatch ==
    /\ evTypes = DataTypes
    /\ ignore_truncate = [t \in Tables |-> FALSE]
    /\ \E p \in {Main, TableSeq[1]} : \E m \in BatchTables(p) : \E ws \in {0, 1} :
          InitBatchOf(p, m, ws)

\* a batch of events of every type for tables without snapshot
InitApply ==
    /\ evTypes = AllTypes
    /\ ignore_truncate \in [Tables -> BOOLEAN]
    /\ \E p \in {Main, TableSeq[1]} : \E ws \in {-1, 1} :
          InitBatchOf(p, [t \in Tables |->
                             BatchObject(IF t = p THEN TABLE_CATCHING_UP ELSE TABLE_OK,
                                         None, None, 0)], ws)

\* copy_snapshot_cleanup, and the handlers of the batch before are dropped
BatchCleanup(p) ==
    /\ pc[p] = "cleanup"
    /\ LET mc == CleanedMem(mem[p], IsCopy(p), prevTick[p], curTick[p], workState[p] = 0)
       IN /\ db' = SavedDb(mc, db)
          /\ mem' = [mem EXCEPT ![p] = SavedMem(mc)]
          /\ touched' = {t \in Tables : mc[t].changed}
    /\ used_plugins' = {}
    /\ sql_list' = <<>>
    /\ pc' = [pc EXCEPT ![p] = "events"]
    /\ UNCHANGED <<tickLimit, lastTick, provState, fkeyDropped, copyNode, parallel_copies,
                   curTick, prevTick, pos, workState, pgqMin, dsyncBackup,
                   applied, copySnap, waitDone>>
    /\ UNCHANGED <<evTypes, evDone, ignore_truncate, executed, rowBuf>>
    /\ UNCHANGED <<attrVars, kitVars>>

\* process_remote_event of worker p for the next event of the batch: its
\* type, its table, its txid, and what the subscriber answers to
\* execute_start and need_execute
EventStep(p, type, t, txid, ret, need) ==
    /\ pc[p] = "events"
    /\ evDone < MaxEvents
    /\ type \in evTypes
    /\ LET ev == evDone + 1
           on_table == type \in DataTypes \cup {"R"}
           wanted == Accepts(mem[p][t], txid, IsCopy(p), t = p)
           obj == AfterInteresting(mem[p][t], txid, curTick[p], IsCopy(p), t = p)
           st == process_remote_event(BatchState, ev, type, t, wanted, IsCopy(p),
                                      workState[p], ret, need)
       IN /\ sql_list' = st.sql_list
          /\ executed' = st.executed
          /\ used_plugins' = st.used_plugins
          /\ rowBuf' = st.rowBuf
          /\ mem' = IF on_table THEN [mem EXCEPT ![p][t] = obj] ELSE mem
          /\ touched' = touched \cup (IF on_table /\ obj.changed THEN {t} ELSE {})
          /\ evDone' = ev
          /\ pc' = [pc EXCEPT ![p] = IF st.failed THEN "failed" ELSE "events"]
    /\ UNCHANGED <<tickLimit, lastTick, provState, db, fkeyDropped, copyNode,
                   parallel_copies, curTick, prevTick, pos, workState, pgqMin,
                   dsyncBackup, applied, copySnap, waitDone>>
    /\ UNCHANGED <<evTypes, ignore_truncate>>
    /\ UNCHANGED <<attrVars, kitVars>>

\* what an event of the batch can be: a row event or a truncate of a table
\* by a transaction, an EXECUTE with the answers it gets, a londiste.* event
NoTable == "-"
EventInputs ==
    {<<type, t, txid, 200, "yes">> :
        type \in DataTypes \cup {"R"}, t \in Tables, txid \in BatchTxids}
    \cup {<<"EXECUTE", NoTable, 1, ret, need>> : ret \in RetCodes, need \in NeedResults}
    \cup {<<type, NoTable, 1, 200, "yes">> : type \in MetaTypes}

ProcessEvent(p) ==
    \E i \in EventInputs : EventStep(p, i[1], i[2], i[3], i[4], i[5])

\* the end of process_remote_batch: flush_sql, finish_batch of the
\* handlers in use, save_table_state
BatchFinish(p) ==
    /\ pc[p] = "events"
    /\ LET st == finish_batch(flush_sql(BatchState), 1)
       IN /\ sql_list' = st.sql_list
          /\ executed' = st.executed
          /\ rowBuf' = st.rowBuf
    /\ used_plugins' = {}
    /\ db' = SaveFinal(mem[p], db)
    /\ mem' = [mem EXCEPT ![p] = SavedMem(mem[p])]
    /\ pc' = [pc EXCEPT ![p] = "commit"]
    /\ UNCHANGED <<tickLimit, lastTick, provState, fkeyDropped, copyNode, parallel_copies,
                   curTick, prevTick, pos, workState, pgqMin, dsyncBackup,
                   applied, copySnap, waitDone>>
    /\ UNCHANGED <<evTypes, evDone, ignore_truncate, touched>>
    /\ UNCHANGED <<attrVars, kitVars>>

\* the consumer framework stores the tick and commits
BatchCommit(p) ==
    /\ pc[p] = "commit"
    /\ pos' = [pos EXCEPT ![p] = curTick[p]]
    /\ pc' = [pc EXCEPT ![p] = "idle"]
    /\ UNCHANGED <<tickLimit, lastTick, provState, db, fkeyDropped, copyNode,
                   parallel_copies, curTick, prevTick, workState, pgqMin,
                   dsyncBackup, mem, applied, copySnap, waitDone>>
    /\ UNCHANGED batchVars
    /\ UNCHANGED <<attrVars, kitVars>>

NextBatch ==
    \/ \E p \in Procs : BatchCleanup(p)
    \/ \E p \in Procs : ProcessEvent(p)
    \/ \E p \in Procs : BatchFinish(p)
    \/ \E p \in Procs : BatchCommit(p)

\* ------------------------------------------------- EXECUTE attributes
\* exec_attrs.py.  Strings are sequences of characters, so that strip,
\* split, find and lower do what they do in the source.  Two of the eight
\* matchers are carried: Local-Table, which looks the name up in the
\* worker's table map, and Need-Table, which looks it up in the database.
META_PREFIX == <<"-", "-", "*", "-", "-">>
META_SPLITLINE == 70

NiceLocalTable == <<"L", "o", "c", "a", "l", "-", "T", "a", "b", "l", "e">>
NiceNeedTable == <<"N", "e", "e", "d", "-", "T", "a", "b", "l", "e">>

\* str.lower, for the capitals of the key names
LowerChar(c) ==
    CASE c = "L" -> "l"
      [] c = "T" -> "t"
      [] c = "N" -> "n"
      [] OTHER -> c

Lower(s) == [i \in 1..Len(s) |-> LowerChar(s[i])]

\* META_MATCHERS, in the order they are probed, and META_KEYS
META_MATCHERS == <<NiceLocalTable, NiceNeedTable>>
META_KEYS == {Lower(META_MATCHERS[i]) : i \in 1..Len(META_MATCHERS)}

\* object names a script can list: one without schema, and a long
\* schema-qualified one
NameShort == <<"a">>
NameLong == <<"p", "u", "b", "l", "i", "c", ".", "x", "x", "x", "x", "x", "x", "x", "x", "x", "x", "x", "x", "x", "x", "x", "x", "x", "x", "x", "x", "x", "x", "x", "x", "x", "x", "x", "x", "x", "x", "x", "x", "x">>
Names == {NameShort, NameLong}

PublicDot == <<"p", "u", "b", "l", "i", "c", ".">>

\* skytools.fq_name: a name without schema is in schema public
fq_name(v) == IF \E i \in 1..Len(v) : v[i] = "." THEN v ELSE PublicDot \o v

FqNames == {fq_name(v) : v \in Names}

IsSpace(c) == c \in {" ", "\t", "\n"}

RECURSIVE LStrip(_)
LStrip(s) == IF s # <<>> /\ IsSpace(Head(s)) THEN LStrip(Tail(s)) ELSE s

RECURSIVE RStrip(_)
RStrip(s) ==
    IF s # <<>> /\ IsSpace(s[Len(s)]) THEN RStrip(SubSeq(s, 1, Len(s) - 1)) ELSE s

\* str.strip
Strip(s) == RStrip(LStrip(s))

\* str.find of one character, as a position from 1; 0 when absent
Find(s, c) ==
    IF \E i \in 1..Len(s) : s[i] = c
    THEN CHOOSE i \in 1..Len(s) : s[i] = c /\ \A j \in 1..(i - 1) : s[j] # c
    ELSE 0

\* str.split(c)
RECURSIVE Split(_, _)
Split(s, c) ==
    LET p == Find(s, c)
    IN IF p = 0 THEN <<s>>
       ELSE <<SubSeq(s, 1, p - 1)>> \o Split(SubSeq(s, p + 1, Len(s)), c)

\* str.splitlines
RECURSIVE SplitLines(_)
SplitLines(s) ==
    IF s = <<>> THEN <<>>
    ELSE LET p == Find(s, "\n")
         IN IF p = 0 THEN <<s>>
            ELSE <<SubSeq(s, 1, p - 1)>> \o SplitLines(SubSeq(s, p + 1, Len(s)))

\* '\n'.join(lines)
RECURSIVE JoinLines(_)
JoinLines(lines) ==
    IF lines = <<>> THEN <<>>
    ELSE IF Len(lines) = 1 THEN lines[1]
    ELSE lines[1] \o <<"\n">> \o JoinLines(Tail(lines))

StartsWith(s, pre) == Len(s) >= Len(pre) /\ SubSeq(s, 1, Len(pre)) = pre

\* add_value on the container a; an invalid key raises
add_value(a, k, v) ==
    LET xk == Strip(Lower(k))
        xv == Strip(v)
    IN IF xk \notin META_KEYS THEN [attrs |-> a, error |-> TRUE]
       ELSE IF xk \in DOMAIN a
       THEN [attrs |-> [a EXCEPT ![xk] = Append(a[xk], xv)], error |-> FALSE]
       ELSE [attrs |-> (xk :> <<xv>>) @@ a, error |-> FALSE]

\* lines of one key that are broken without the comma
RECURSIVE KeyLinesNoComma(_, _, _, _)
KeyLinesNoComma(vlist, nr, start, ln) ==
    IF nr > Len(vlist) THEN <<ln>>
    ELSE LET ln1 == IF nr > start THEN ln \o <<",", " ">> \o vlist[nr]
                    ELSE ln \o vlist[nr]
         IN IF Len(ln1) >= META_SPLITLINE /\ nr < Len(vlist)
            THEN <<ln1>> \o
                 KeyLinesNoComma(vlist, nr + 1, nr + 1,
                                 META_PREFIX \o <<" ", " ", " ", " ", " ">>)
            ELSE KeyLinesNoComma(vlist, nr + 1, start, ln1)

\* to_sql: the lines of one key, from value nr on; ln is the line being
\* filled and start the index of its first value
RECURSIVE KeyLines(_, _, _, _)
KeyLines(vlist, nr, start, ln) ==
    IF nr > Len(vlist) THEN <<ln>>
    ELSE LET ln1 == IF nr > start THEN ln \o <<",", " ">> \o vlist[nr]
                    ELSE ln \o vlist[nr]
         IN IF Len(ln1) >= META_SPLITLINE /\ nr < Len(vlist)
            THEN <<ln1 \o <<",">>>> \o
                 KeyLines(vlist, nr + 1, nr + 1, META_PREFIX \o <<" ", " ", " ", " ", " ">>)
            ELSE KeyLines(vlist, nr + 1, start, ln1)

RECURSIVE SqlLines(_, _)
SqlLines(a, i) ==
    IF i > Len(META_MATCHERS) THEN <<>>
    ELSE LET nice == META_MATCHERS[i]
             k == Lower(nice)
         IN (IF k \in DOMAIN a
             THEN KeyLines(a[k], 1, 1, META_PREFIX \o <<" ">> \o nice \o <<":", " ">>)
             ELSE <<>>) \o SqlLines(a, i + 1)

to_sql(a) == JoinLines(SqlLines(a, 1))

\* parse_sql: add the values of the list vs under key k, skipping empty ones
RECURSIVE AddValues(_, _, _)
AddValues(st, k, vs) ==
    IF vs = <<>> \/ st.error THEN st
    ELSE LET v == Strip(Head(vs))
         IN IF v = <<>> THEN AddValues(st, k, Tail(vs))
            ELSE LET r == add_value(st.attrs, k, v)
                 IN AddValues([st EXCEPT !.attrs = r.attrs, !.error = r.error],
                              k, Tail(vs))

\* parse_sql: one line
ParseLine(st, line) ==
    LET ln == Strip(line)
        body == Strip(SubSeq(ln, Len(META_PREFIX) + 1, Len(ln)))
        colon == Find(body, ":")
        k == Strip(SubSeq(body, 1, colon - 1))
        more == body[Len(body)] = ","
    IN IF st.stopped \/ st.error \/ ln = <<>> THEN st
       ELSE IF SubSeq(ln, 1, 2) # <<"-", "-">> THEN [st EXCEPT !.stopped = TRUE]
       ELSE IF ~StartsWith(ln, META_PREFIX) \/ body = <<>> THEN st
       ELSE IF st.cur_continued
       THEN [AddValues(st, st.cur_key, Split(body, ","))
                EXCEPT !.cur_key = IF more THEN st.cur_key ELSE <<>>,
                       !.cur_continued = more]
       ELSE IF colon = 0 THEN st
       ELSE [AddValues(st, k, Split(SubSeq(body, colon + 1, Len(body)), ","))
                EXCEPT !.cur_key = IF more THEN k ELSE <<>>,
                       !.cur_continued = more]

RECURSIVE ParseLines(_, _)
ParseLines(st, lines) ==
    IF lines = <<>> THEN st ELSE ParseLines(ParseLine(st, Head(lines)), Tail(lines))

parse_sql(sql) ==
    LET st == ParseLines([attrs |-> <<>>, cur_key |-> <<>>, cur_continued |-> FALSE,
                          stopped |-> FALSE, error |-> FALSE], SplitLines(sql))
    IN [attrs |-> st.attrs, error |-> st.error]

\* Matcher.match of the key's matcher for a qualified name
Match(k, fqname, tables, exists) ==
    IF k = Lower(NiceLocalTable) THEN fqname \in tables ELSE fqname \in exists

\* need_execute: the values of the keys from matcher i on that match
RECURSIVE Matched(_, _, _, _)
Matched(a, i, tables, exists) ==
    IF i > Len(META_MATCHERS) THEN 0
    ELSE LET k == Lower(META_MATCHERS[i])
         IN (IF k \in DOMAIN a
             THEN Cardinality({n \in 1..Len(a[k]) :
                                  Match(k, fq_name(a[k][n]), tables, exists)})
             ELSE 0) + Matched(a, i + 1, tables, exists)

\* need_execute: the values of the keys from matcher i on that do not match
RECURSIVE Missed(_, _, _, _)
Missed(a, i, tables, exists) ==
    IF i > Len(META_MATCHERS) THEN 0
    ELSE LET k == Lower(META_MATCHERS[i])
         IN (IF k \in DOMAIN a
             THEN Cardinality({n \in 1..Len(a[k]) :
                                  ~Match(k, fq_name(a[k][n]), tables, exists)})
             ELSE 0) + Missed(a, i + 1, tables, exists)

\* a decision that skips the script on any miss
need_execute_lax(a, tables, exists) ==
    IF Missed(a, 1, tables, exists) > 0 THEN "no" ELSE "yes"

need_execute(a, tables, exists) ==
    LET matched == Matched(a, 1, tables, exists)
        missed == Missed(a, 1, tables, exists)
    IN IF DOMAIN a = {} THEN "yes"
       ELSE IF matched > 0 /\ missed = 0 THEN "yes"
       ELSE IF missed > 0 /\ matched = 0 THEN "no"
       ELSE IF missed = 0 /\ matched = 0 THEN "yes"
       ELSE "raise"

\* values held by the container
RECURSIVE CountValues(_, _)
CountValues(a, i) ==
    IF i > Len(META_MATCHERS) THEN 0
    ELSE LET k == Lower(META_MATCHERS[i])
         IN (IF k \in DOMAIN a THEN Len(a[k]) ELSE 0) + CountValues(a, i + 1)

\* a new container, and a subscriber with any of the named tables
InitAttrs ==
    /\ ReplIdle
    /\ BatchIdle
    /\ KitIdle
    /\ attrs = <<>>
    /\ local_tables \in SUBSET FqNames
    /\ existing \in SUBSET FqNames
    /\ sqlText = <<>>
    /\ parsed = [attrs |-> <<>>, error |-> FALSE]
    /\ needResult = "none"
    /\ attrPc = "build"

AddValue ==
    /\ attrPc = "build"
    /\ CountValues(attrs, 1) < MaxValues
    /\ \E i \in 1..Len(META_MATCHERS) : \E v \in Names :
          attrs' = add_value(attrs, META_MATCHERS[i], v).attrs
    /\ UNCHANGED <<local_tables, existing, sqlText, parsed, needResult, attrPc>>
    /\ UNCHANGED <<replVars, batchVars, kitVars>>

ToSql ==
    /\ attrPc = "build"
    /\ sqlText' = to_sql(attrs)
    /\ attrPc' = "sql"
    /\ UNCHANGED <<attrs, local_tables, existing, parsed, needResult>>
    /\ UNCHANGED <<replVars, batchVars, kitVars>>

ParseSql ==
    /\ attrPc = "sql"
    /\ parsed' = parse_sql(sqlText)
    /\ attrPc' = "parsed"
    /\ UNCHANGED <<attrs, local_tables, existing, sqlText, needResult>>
    /\ UNCHANGED <<replVars, batchVars, kitVars>>

NeedExecute ==
    /\ attrPc = "build"
    /\ needResult' = need_execute(attrs, local_tables, existing)
    /\ attrPc' = "asked"
    /\ UNCHANGED <<attrs, local_tables, existing, sqlText, parsed>>
    /\ UNCHANGED <<replVars, batchVars, kitVars>>

NextAttrs ==
    \/ AddValue
    \/ ToSql
    \/ ParseSql
    \/ NeedExecute

\* ------------------------------------------------------- shard handler
\* an AND that drops the sign of the hash first
RECURSIVE BitAndAbs(_, _)
BitAndAbs(a, b) ==
    IF a < 0 THEN -BitAndAbs(-a, b)
    ELSE IF a = 0 \/ b = 0 THEN 0
    ELSE (a % 2) * (b % 2) + 2 * BitAndAbs(a \div 2, b \div 2)

\* Python's a & b on integers of any size and sign (two's complement)
RECURSIVE BitAnd(_, _)
BitAnd(a, b) ==
    IF a = 0 \/ b = 0 THEN 0
    ELSE IF a = -1 /\ b = -1 THEN -1
    ELSE (a % 2) * (b % 2) + 2 * BitAnd(a \div 2, b \div 2)

\* an event as the handler sees it: its extra3 with the hash, or without one
HashEvent(h) == <<"ev", h>>
NoHash == <<"ev">>
HashOf(ev) == ev[2]

ShardNrs == -1..(MaxShardMask + 1)
ShardMasks == 0..MaxShardMask
ShardCounts == 1..(MaxShardMask + 1)
Hashes == (-MaxHash)..MaxHash

\* load_shard_info: what it raises, or "ok"
load_shard_info(shard_nr, shard_mask, shard_count) ==
    IF BitAnd(shard_count, shard_mask) # 0 \/ shard_mask + 1 # shard_count
      THEN "Invalid shard info"
    ELSE IF shard_nr < 0 \/ shard_nr >= shard_count
      THEN "Invalid shard nr"
    ELSE "ok"

\* is_local_shard_event, for an event that carries a hash
is_local_shard_event(meta_hash, shard_mask, shard_nr) ==
    BitAnd(meta_hash, shard_mask) = shard_nr

\* prepare_batch: loads the shard info once, when it is not loaded yet
prepare_batch(n) ==
    IF shardNode[n] = "new"
      THEN load_shard_info(n, shardConf.shard_mask, shardConf.shard_count)
      ELSE shardNode[n]

\* a cluster with any partconf.conf values; each node has its own shard_nr
InitShard ==
    /\ ReplIdle
    /\ BatchIdle
    /\ AttrIdle
    /\ LoaderIdle
    /\ RepairIdle
    /\ MoreIdle
    /\ shardConf \in [shard_mask : ShardMasks, shard_count : ShardCounts]
    /\ shardNode = [n \in ShardNrs |-> "new"]
    /\ disable_replay \in {{}} \cup {{n} : n \in ShardNrs}
    /\ shardEv = <<>>
    /\ shardSeen = {}
    /\ shardApplied = {}

\* the root node puts the next event into the queue
ShardEvent ==
    /\ shardEv = <<>> \/ shardSeen = ShardNrs
    /\ shardEv' \in {HashEvent(h) : h \in Hashes} \cup {NoHash}
    /\ shardSeen' = {}
    /\ shardApplied' = {}
    /\ UNCHANGED <<shardConf, shardNode, disable_replay>>
    /\ UNCHANGED <<replVars, batchVars, attrVars, loaderVars, repairVars, moreVars>>

\* the worker of node n hands the event to its ShardHandler: prepare_batch
\* before the first event, then process_event
ShardProcessEvent(n) ==
    /\ shardEv # <<>>
    /\ n \notin shardSeen
    /\ LET st == prepare_batch(n)
       IN /\ shardSeen' = shardSeen \cup {n}
          /\ IF st # "ok"
               THEN /\ shardNode' = [shardNode EXCEPT ![n] = st]
                    /\ UNCHANGED shardApplied
             ELSE IF n \in disable_replay
               THEN /\ shardNode' = [shardNode EXCEPT ![n] = st]
                    /\ UNCHANGED shardApplied
             ELSE IF shardEv = NoHash
               THEN /\ shardNode' = [shardNode EXCEPT ![n] = "no hash"]
                    /\ UNCHANGED shardApplied
             ELSE /\ shardNode' = [shardNode EXCEPT ![n] = st]
                  /\ shardApplied' =
                        IF is_local_shard_event(HashOf(shardEv), shardConf.shard_mask, n)
                          THEN shardApplied \cup {n}
                          ELSE shardApplied
    /\ UNCHANGED <<shardConf, disable_replay, shardEv>>
    /\ UNCHANGED <<replVars, batchVars, attrVars, loaderVars, repairVars, moreVars>>

NextShard ==
    \/ ShardEvent
    \/ \E n \in ShardNrs : ShardProcessEvent(n)

\* ----------------------------------------------------------- bulk loader
Ops == {"I", "U", "D"}
PkValue == 1                   \* the one primary key value that is followed
DataValues == 1..MaxData       \* values of the non-key column

\* a row as the event carries it: the key, and the other column if there is one
RowOf(pkOnly, v) == IF pkOnly THEN <<PkValue>> ELSE <<PkValue, v>>
pkeys == <<1>>                 \* positions of the key columns in a row

\* a graph in which every operation replaces the one before
OP_GRAPH_last ==
    ("-" :> ("U" :> "U" @@ "I" :> "I" @@ "D" :> "D")) @@
    ("I" :> ("U" :> "U" @@ "I" :> "I" @@ "D" :> "D")) @@
    ("U" :> ("U" :> "U" @@ "I" :> "I" @@ "D" :> "D")) @@
    ("D" :> ("U" :> "U" @@ "I" :> "I" @@ "D" :> "D")) @@
    ("." :> ("U" :> "U" @@ "I" :> "I" @@ "D" :> "D"))

OP_GRAPH ==
    ("-" :> ("U" :> "U" @@ "I" :> "I" @@ "D" :> "D")) @@
    ("I" :> ("D" :> ".")) @@
    ("U" :> ("D" :> "D")) @@
    ("D" :> ("I" :> "U")) @@
    ("." :> ("I" :> "I"))

\* dict.get(key, default)
DictGet(d, key, default) == IF key \in DOMAIN d THEN d[key] ELSE default
DictSet(d, key, val) == [k \in DOMAIN d \cup {key} |-> IF k = key THEN val ELSE d[k]]
DictDel(d, key) == [k \in DOMAIN d \ {key} |-> d[k]]

\* a loader that stores every event as it comes
process_plain(map, op, row) ==
    DictSet(map, row[pkeys[1]], <<op, row>>)

\* BaseBulkCollectingLoader.process
process(map, op, row) ==
    LET pk_data == row[pkeys[1]]
        old == DictGet(map, pk_data, <<"-", <<>>>>)[1]
        new == DictGet(OP_GRAPH[old], op, old)
        stored == DictSet(map, pk_data, <<new, row>>)
    IN IF Len(pkeys) = Len(row) /\ new = "U"
         THEN DictDel(stored, pk_data)
         ELSE stored

\* collect_data: the rows of each operation
collect_data(map) ==
    [op \in Ops |-> {map[k][2] : k \in {x \in DOMAIN map : map[x][1] = op}}]

\* the destination row after one statement of mk_insert_sql, mk_update_sql or
\* mk_delete_sql; an insert over an existing row fails the transaction
ApplyOp(st, op, row) ==
    IF st.failed THEN st
    ELSE IF op = "I"
      THEN IF st.row = <<>> THEN [st EXCEPT !.row = row] ELSE [st EXCEPT !.failed = TRUE]
    ELSE IF op = "U"
      THEN IF st.row = <<>> THEN st ELSE [st EXCEPT !.row = row]
    ELSE [st EXCEPT !.row = <<>>]

\* DirectLoader.flush: the events one by one
RECURSIVE ApplyChain(_, _, _)
ApplyChain(st, chain, i) ==
    IF i > Len(chain) THEN st
    ELSE ApplyChain(ApplyOp(st, chain[i][1], chain[i][2]), chain, i + 1)

\* bulk_flush: deletes, then updates, then inserts
ApplyRows(st, op, rows) ==
    IF rows = {} THEN st ELSE ApplyOp(st, op, CHOOSE r \in rows : TRUE)

bulk_flush(st, op_map) ==
    ApplyRows(ApplyRows(ApplyRows(st, "D", op_map["D"]), "U", op_map["U"]), "I", op_map["I"])

StartRows(pkOnly) ==
    {[row |-> <<>>, failed |-> FALSE]} \cup
    {[row |-> RowOf(pkOnly, v), failed |-> FALSE] : v \in DataValues}

InitLoader ==
    /\ ReplIdle
    /\ BatchIdle
    /\ AttrIdle
    /\ ShardIdle
    /\ RepairIdle
    /\ MoreIdle
    /\ ldPkOnly \in BOOLEAN
    /\ ldStart \in StartRows(ldPkOnly)
    /\ ldChain = <<>>
    /\ pkey_ev_map = <<>>
    /\ ldDest = ldStart
    /\ ldPc = "collect"

\* RowHandler.process of row_mode plain hands the event to the loader
LoaderProcess(op, v) ==
    /\ ldPc = "collect"
    /\ Len(ldChain) < MaxChain
    /\ pkey_ev_map' = process(pkey_ev_map, op, RowOf(ldPkOnly, v))
    /\ ldChain' = Append(ldChain, <<op, RowOf(ldPkOnly, v)>>)
    /\ UNCHANGED <<ldPkOnly, ldStart, ldDest, ldPc>>
    /\ UNCHANGED <<replVars, batchVars, attrVars, shardVars, repairVars, moreVars>>

\* RowHandler.flush at finish_batch
LoaderFlush ==
    /\ ldPc = "collect"
    /\ ldDest' = bulk_flush(ldStart, collect_data(pkey_ev_map))
    /\ ldPc' = "flushed"
    /\ UNCHANGED <<ldPkOnly, ldStart, ldChain, pkey_ev_map>>
    /\ UNCHANGED <<replVars, batchVars, attrVars, shardVars, repairVars, moreVars>>

NextLoader ==
    \/ \E op \in Ops : \E v \in DataValues : LoaderProcess(op, v)
    \/ LoaderFlush

\* KeepLatestRowHandler.process: an update goes to the loader as a delete
\* and an insert of the same row, insert and delete go as they are
KeepLatestOps(op) == IF op = "U" THEN <<"D", "I">> ELSE <<op>>

RECURSIVE ProcessAll(_, _, _, _)
ProcessAll(map, ops, row, i) ==
    IF i > Len(ops) THEN map
    ELSE ProcessAll(process(map, ops[i], row), ops, row, i + 1)

KeepLatestProcess(op, v) ==
    LET ops == KeepLatestOps(op)
        row == RowOf(ldPkOnly, v)
    IN /\ ldPc = "collect"
       /\ Len(ldChain) + Len(ops) <= MaxChain
       /\ pkey_ev_map' = ProcessAll(pkey_ev_map, ops, row, 1)
       /\ ldChain' = ldChain \o [i \in 1..Len(ops) |-> <<ops[i], row>>]
       /\ UNCHANGED <<ldPkOnly, ldStart, ldDest, ldPc>>
       /\ UNCHANGED <<replVars, batchVars, attrVars, shardVars, repairVars, moreVars>>

NextKeepLatest ==
    \/ \E op \in Ops : \E v \in DataValues : KeepLatestProcess(op, v)
    \/ LoaderFlush

\* ----------------------------------------------------------------- repair
Keys == 1..MaxKey              \* primary key values
RepairValues == 1..MaxRepVal   \* values of the other common column; they are
                               \* shorter than 19 characters, so cmp_value's
                               \* time zone branch never applies to them
Absent == 0                    \* no row with the key
EmptyField == 0                \* the empty string as a key: below every key

\* tables of rpn common columns: with the key column only, a row is its key
RepairTables(rpn) ==
    [Keys -> {Absent} \cup (IF rpn = 1 THEN {1} ELSE RepairValues)]

\* the line copy writes for the row of key k
DumpLine(rpn, tab, k) == IF rpn = 1 THEN <<k>> ELSE <<k, tab[k]>>

\* dump_table and do_sort: the lines of the rows in key order, from key k on
RECURSIVE SortedDump(_, _, _)
SortedDump(rpn, tab, k) ==
    IF k > MaxKey THEN <<>>
    ELSE IF tab[k] = Absent THEN SortedDump(rpn, tab, k + 1)
    ELSE <<DumpLine(rpn, tab, k)>> \o SortedDump(rpn, tab, k + 1)

\* f.readline(): the next line, or the empty string at end of file
Readline(f) == IF f = <<>> THEN <<>> ELSE Head(f)
AfterRead(f) == IF f = <<>> THEN <<>> ELSE Tail(f)

\* ln[:-1].split('\t'): the empty string splits into one empty field
SplitTabs(ln) == IF ln = <<>> THEN <<EmptyField>> ELSE ln

\* get_row: fails with IndexError when the line has too few fields
get_row(ln) ==
    LET t == SplitTabs(ln)
    IN IF Len(t) < rpFields
         THEN [error |-> TRUE, row |-> <<>>]
         ELSE [error |-> FALSE, row |-> [i \in 1..rpFields |-> t[i]]]

cmp_keys(src_row, dst_row) ==
    IF src_row[1] < dst_row[1] THEN -1
    ELSE IF src_row[1] > dst_row[1] THEN 1
    ELSE 0

cmp_value(v1, v2) == IF v1 = v2 THEN 0 ELSE -1

cmp_data(src_row, dst_row) ==
    IF \E i \in 1..rpFields : cmp_value(src_row[i], dst_row[i]) # 0 THEN -1 ELSE 0

\* the fields of the two rows that differ, as <<field, value>> of the row r
RECURSIVE DiffFields(_, _, _, _)
DiffFields(src_row, dst_row, r, i) ==
    IF i > rpFields THEN <<>>
    ELSE IF cmp_value(src_row[i], dst_row[i]) = 0
      THEN DiffFields(src_row, dst_row, r, i + 1)
    ELSE <<<<i, r[i]>>>> \o DiffFields(src_row, dst_row, r, i + 1)

got_missed_insert(src_row) ==
    [op |-> "insert", set |-> [i \in 1..rpFields |-> <<i, src_row[i]>>], whr |-> <<>>]

got_missed_update(src_row, dst_row) ==
    [op |-> "update",
     set |-> DiffFields(src_row, dst_row, src_row, 1),
     whr |-> <<<<1, src_row[1]>>>> \o DiffFields(src_row, dst_row, dst_row, 1)]

got_missed_delete(dst_row) ==
    [op |-> "delete", set |-> <<>>, whr |-> <<<<1, dst_row[1]>>>>]

\* the row of key k as a tuple of its fields, <<>> when there is none
RowAt(tab, k) ==
    IF k \notin DOMAIN tab \/ tab[k] = Absent THEN <<>>
    ELSE IF rpFields = 1 THEN <<k>> ELSE <<k, tab[k]>>

\* the table after the subscriber has executed statement q
ApplyFix(tab, q) ==
    LET k == IF q.op = "insert" THEN q.set[1][2] ELSE q.whr[1][2]
        row == RowAt(tab, k)
        hit == row # <<>> /\ \A j \in 1..Len(q.whr) : row[q.whr[j][1]] = q.whr[j][2]
    IN IF k \notin Keys THEN tab
       ELSE IF q.op = "insert"
         THEN IF row = <<>>
                THEN [tab EXCEPT ![k] = IF rpFields = 1 THEN 1 ELSE q.set[2][2]]
                ELSE tab
       ELSE IF q.op = "update"
         THEN IF hit /\ q.set # <<>> THEN [tab EXCEPT ![k] = q.set[1][2]] ELSE tab
       ELSE IF hit THEN [tab EXCEPT ![k] = Absent] ELSE tab

RECURSIVE ApplyFixes(_, _, _)
ApplyFixes(tab, qs, i) ==
    IF i > Len(qs) THEN tab ELSE ApplyFixes(ApplyFix(tab, qs[i]), qs, i + 1)

\* both tables were dumped and sorted
InitRepair ==
    /\ ReplIdle
    /\ BatchIdle
    /\ AttrIdle
    /\ ShardIdle
    /\ LoaderIdle
    /\ MoreIdle
    /\ rpFields \in 1..2
    /\ srcTab \in RepairTables(rpFields)
    /\ dstTab \in RepairTables(rpFields)
    /\ dumpSrc = SortedDump(rpFields, srcTab, 1)
    /\ dumpDst = SortedDump(rpFields, dstTab, 1)
    /\ src_ln = <<>>
    /\ dst_ln = <<>>
    /\ fixes = <<>>
    /\ fixedTab = dstTab
    /\ rpPc = "dumped"

\* dump_compare_streams up to its loop: the first line of each dump
CompareStart ==
    /\ rpPc = "dumped"
    /\ src_ln' = Readline(dumpSrc)
    /\ dst_ln' = Readline(dumpDst)
    /\ dumpSrc' = AfterRead(dumpSrc)
    /\ dumpDst' = AfterRead(dumpDst)
    /\ rpPc' = "compare"
    /\ UNCHANGED <<rpFields, srcTab, dstTab, fixes, fixedTab>>
    /\ UNCHANGED <<replVars, batchVars, attrVars, shardVars, loaderVars, moreVars>>

\* one round of the loop of dump_compare_streams
CompareStep ==
    /\ rpPc = "compare"
    /\ src_ln # <<>> \/ dst_ln # <<>>
    /\ LET src == get_row(src_ln)
           dst == get_row(dst_ln)
           differ == src_ln # dst_ln
           diff == cmp_keys(src.row, dst.row)
           keep_src == differ /\ diff > 0
           keep_dst == differ /\ diff < 0
           fix == IF ~differ THEN <<>>
                  ELSE IF diff > 0 THEN <<got_missed_delete(dst.row)>>
                  ELSE IF diff < 0 THEN <<got_missed_insert(src.row)>>
                  ELSE IF cmp_data(src.row, dst.row) # 0
                    THEN <<got_missed_update(src.row, dst.row)>>
                  ELSE <<>>
           src_next == IF keep_src THEN src_ln ELSE Readline(dumpSrc)
           dst_next == IF keep_dst THEN dst_ln ELSE Readline(dumpDst)
       IN IF differ /\ (src.error \/ dst.error)
            THEN /\ rpPc' = "IndexError"
                 /\ UNCHANGED <<src_ln, dst_ln, dumpSrc, dumpDst, fixes>>
            ELSE /\ fixes' = fixes \o fix
                 /\ src_ln' = src_next
                 /\ dst_ln' = dst_next
                 /\ dumpSrc' = IF keep_src THEN dumpSrc ELSE AfterRead(dumpSrc)
                 /\ dumpDst' = IF keep_dst THEN dumpDst ELSE AfterRead(dumpDst)
                 \* a round that reads nothing new is repeated without end
                 /\ rpPc' = IF src_next = src_ln /\ dst_next = dst_ln
                                /\ dumpSrc' = dumpSrc /\ dumpDst' = dumpDst
                              THEN "endless" ELSE "compare"
    /\ UNCHANGED <<rpFields, srcTab, dstTab, fixedTab>>
    /\ UNCHANGED <<replVars, batchVars, attrVars, shardVars, loaderVars, moreVars>>

\* the loop ends when both dumps are at their end
CompareEnd ==
    /\ rpPc = "compare"
    /\ src_ln = <<>> /\ dst_ln = <<>>
    /\ rpPc' = "done"
    /\ UNCHANGED <<rpFields, srcTab, dstTab, dumpSrc, dumpDst, src_ln, dst_ln,
                   fixes, fixedTab>>
    /\ UNCHANGED <<replVars, batchVars, attrVars, shardVars, loaderVars, moreVars>>

\* show_fix: the statements of the run, executed on the subscriber in order
ApplyRun ==
    /\ rpPc \in {"done", "IndexError"}
    /\ fixedTab' = ApplyFixes(dstTab, fixes, 1)
    /\ rpPc' = IF rpPc = "done" THEN "applied" ELSE "applied after IndexError"
    /\ UNCHANGED <<rpFields, srcTab, dstTab, dumpSrc, dumpDst, src_ln, dst_ln, fixes>>
    /\ UNCHANGED <<replVars, batchVars, attrVars, shardVars, loaderVars, moreVars>>

NextRepair ==
    \/ CompareStart
    \/ CompareStep
    \/ CompareEnd
    \/ ApplyRun

\* ------------------------------------------------------ add-table, copy node
\* The node that runs add-table is a leaf; node 1 is its provider, node 2
\* the provider of node 1, and so on up to the root, the last node.
NewTables == {"t1", "t2"}

NodeNames == <<"n1", "n2", "n3", "n4", "n5">>

local_node == "leaf"

\* the name cmd_add_table hands to find_copy_source for its own provider
UnknownName == "?"

\* queue_info.get_member: the location of the named member, 0 for no member
get_member(name) ==
    IF \E i \in 1..Len(fcUsable) : NodeNames[i] = name
    THEN CHOOSE i \in 1..Len(fcUsable) : NodeNames[i] = name
    ELSE 0

\* find_copy_source, the tables of need found usable on the node
Got(loc) == fcNeed \cap fcUsable[loc]

InitFind ==
    /\ AdminAlone
    /\ fcNeed \in (SUBSET NewTables) \ {{}}
    /\ \E n \in 1..MaxCascade : fcUsable \in [1..n -> SUBSET NewTables]
    /\ fcCreate \in BOOLEAN
    /\ fcName = ""
    /\ fcLoc = 0
    /\ copy_node = ""
    /\ provider_location = 1
    /\ addPc = "start"

\* cmd_add_table up to the search: without create flags no search is made and
\* the tables are registered with the provider as it is
AddTableStart ==
    /\ addPc = "start"
    /\ IF fcCreate
       THEN /\ fcName' = UnknownName
            /\ fcLoc' = provider_location
            /\ addPc' = "search"
       ELSE /\ addPc' = "added"
            /\ UNCHANGED <<fcName, fcLoc>>
    /\ UNCHANGED <<fcNeed, fcUsable, fcCreate, copy_node, provider_location>>
    /\ UNCHANGED adminRest

\* find_copy_source, one round of its loop on the node at fcLoc
FindCopyHop ==
    /\ addPc = "search"
    /\ IF Got(fcLoc) = fcNeed
       THEN /\ addPc' = "found"
            /\ UNCHANGED <<fcName, fcLoc>>
       ELSE IF fcLoc = Len(fcUsable)
       THEN /\ addPc' = "UsageError: Found root and no source found"
            /\ UNCHANGED <<fcName, fcLoc>>
       ELSE /\ fcName' = NodeNames[fcLoc + 1]
            /\ fcLoc' = fcLoc + 1
            /\ UNCHANGED addPc
    /\ UNCHANGED <<fcNeed, fcUsable, fcCreate, copy_node, provider_location>>
    /\ UNCHANGED adminRest

\* cmd_add_table after the search: options.copy_node and get_provider_db
UseCopyNode ==
    /\ addPc = "found"
    /\ copy_node' = fcName
    /\ IF fcName = ""
       THEN /\ addPc' = "added"
            /\ UNCHANGED provider_location
       ELSE IF get_member(fcName) = 0
       THEN /\ addPc' = "UsageError: Cannot find node"
            /\ UNCHANGED provider_location
       ELSE IF fcName = local_node
       THEN /\ addPc' = "UsageError: Cannot use itself as provider"
            /\ UNCHANGED provider_location
       ELSE /\ addPc' = "added"
            /\ provider_location' = get_member(fcName)
    /\ UNCHANGED <<fcNeed, fcUsable, fcCreate, fcName, fcLoc>>
    /\ UNCHANGED adminRest

NextFind ==
    \/ AddTableStart
    \/ FindCopyHop
    \/ UseCopyNode

\* the nodes upstream on which every table of need is usable
Sources == {i \in 1..Len(fcUsable) : fcNeed \subseteq fcUsable[i]}

\* the nearest of them
FirstSource == CHOOSE i \in Sources : \A j \in Sources : i <= j

\* the search is over
AddEnded == addPc \notin {"idle", "start", "search", "found"}

\* C21: with --find-copy-node the search goes upstream one provider at a time
\* from the current provider, passes only nodes that lack a requested table,
\* and add-table ends using the nearest node that has them all as the copy
\* source, the current provider included; with no such node up to the root it
\* ends in the usage error of the search.
C21_FindCopyNode ==
    /\ (addPc \in {"search", "found"}) =>
           /\ \A j \in 1..(fcLoc - 1) : j \notin Sources
           /\ addPc = "found" => fcLoc = FirstSource
    /\ (fcCreate /\ AddEnded) =>
           IF Sources = {}
           THEN addPc = "UsageError: Found root and no source found"
           ELSE addPc = "added" /\ provider_location = FirstSource

\* the same for a source that is not the current provider
C21_Upstream ==
    (fcCreate /\ AddEnded /\ 1 \notin Sources) => C21_FindCopyNode

\* the current provider has every table and the command has ended
C21_ProviderHasAll == fcCreate /\ AddEnded /\ 1 \in Sources

\* --------------------------------------------------------------- obfuscator
\* Python values: py is the type, v the text of the value (the digits of an
\* int, True or False for a bool); a dict has the map of its keys as items.
PyNone == [py |-> "none", v |-> ""]

PyStr(s) == [py |-> "str", v |-> s]

PyInt(s) == [py |-> "int", v |-> s]

PyBool(b) == [py |-> "bool", v |-> IF b THEN "True" ELSE "False"]

PyDict(f) == [py |-> "dict", items |-> f]

\* a rule of the map: an action, or a dict of rules for a JSON column
Action(a) == [py |-> "action", v |-> a]

Actions == {Action(a) : a \in {"keep", "skip", "bool", "hash32", "hash64", "hash"}}

SKIP == Action("skip")

Digit == <<"0", "1", "2", "3", "4", "5", "6", "7", "8", "9">>

IntTexts == {Digit[n + 1] : n \in 0..MaxObfInt}

\* bool(value)
Truth(d) ==
    CASE d.py = "str" -> d.v # ""
      [] d.py = "int" -> d.v # "0"
      [] d.py = "bool" -> d.v = "True"
      [] d.py = "none" -> FALSE
      [] OTHER -> d.items # <<>>

\* isinstance(data, int) holds for a bool too and is asked first, so that a
\* bool is formatted with %d
as_bytes(data) ==
    CASE data.py = "str" -> data.v
      [] data.py = "int" -> data.v
      [] data.py = "bool" -> IF data.v = "True" THEN "1" ELSE "0"

\* blake2s with the key, taken to be free of collisions: the digest is named
\* by the bytes that were hashed
hash32(data) ==
    IF data.py = "none" THEN PyNone ELSE PyInt("h32(" \o as_bytes(data) \o ")")

hash64(data) ==
    IF data.py = "none" THEN PyNone ELSE PyInt("h64(" \o as_bytes(data) \o ")")

hash128(data) ==
    IF data.py = "none" THEN PyNone ELSE PyStr("h128(" \o as_bytes(data) \o ")")

\* str(n)
Str(d) == PyStr(d.v)

\* JSON documents of the JSON column: key a holds a scalar, key b a dict
\* with key c
JsonScalars == {PyNone, PyStr("x"), PyBool(TRUE)} \cup {PyInt(s) : s \in IntTexts}

JsonKeys == <<"a", "b", "c">>

JsonDocs ==
    {PyDict(f) : f \in
        {<<>>} \cup {("a" :> s) : s \in JsonScalars}
               \cup {("b" :> PyDict("c" :> s)) : s \in JsonScalars}
               \cup {("a" :> s) @@ ("b" :> PyDict("c" :> s)) : s \in JsonScalars}}

\* rules for the JSON column
JsonRules ==
    {PyDict(f) : f \in
        {("a" :> r) : r \in Actions}
            \cup {("b" :> PyDict("c" :> r)) : r \in Actions}
            \cup {("a" :> Action("keep")) @@ ("b" :> PyDict("c" :> r)) : r \in Actions}
            \cup {("a" :> PyDict(<<>>))}}

RECURSIVE DumpItems(_, _)
RECURSIVE Dumps(_)
\* json.dumps
Dumps(d) ==
    CASE d.py = "none" -> "null"
      [] d.py = "str" -> "'" \o d.v \o "'"
      [] d.py = "int" -> d.v
      [] d.py = "bool" -> IF d.v = "True" THEN "true" ELSE "false"
      [] d.py = "dict" -> "{" \o DumpItems(d.items, 1) \o "}"

DumpItems(f, i) ==
    IF i > Len(JsonKeys) THEN ""
    ELSE IF JsonKeys[i] \in DOMAIN f
    THEN JsonKeys[i] \o ":" \o Dumps(f[JsonKeys[i]]) \o "," \o DumpItems(f, i + 1)
    ELSE DumpItems(f, i + 1)

\* json.loads of the text of a document of the column
Loads(text) == CHOOSE d \in JsonDocs : Dumps(d) = text

\* json_data.get(key)
JsonGet(d, k) == IF k \in DOMAIN d.items THEN d.items[k] ELSE PyNone

\* a cleanup that hands the JSON data on as it came
obf_json_whole(json_data, rule_data) == json_data

RECURSIVE obf_json(_, _)
\* module function obf_json
obf_json(json_data, rule_data) ==
    IF rule_data.py = "dict"
    THEN IF json_data.py # "dict"
         THEN PyNone
         ELSE LET kept == {k \in DOMAIN rule_data.items :
                             obf_json(JsonGet(json_data, k), rule_data.items[k]).py # "none"}
              IN  IF kept = {}
                  THEN PyNone
                  ELSE PyDict([k \in kept |->
                                 obf_json(JsonGet(json_data, k), rule_data.items[k])])
    ELSE IF rule_data.v = "keep" THEN json_data
    ELSE IF rule_data.v = "skip" THEN PyNone
    ELSE IF json_data.py = "dict" THEN PyNone
    ELSE IF rule_data.v = "bool"
    THEN IF json_data.py = "none"
         THEN PyNone
         ELSE PyStr(IF Truth(json_data) THEN "t" ELSE "f")
    ELSE IF rule_data.v = "hash32" THEN hash32(json_data)
    ELSE IF rule_data.v = "hash64" THEN hash64(json_data)
    ELSE hash128(json_data)

\* Obfuscator.obf_json
ObfJsonColumn(value, rule_data) ==
    IF value.py = "none"
    THEN PyNone
    ELSE LET obf_data == obf_json(Loads(value.v), rule_data)
         IN  PyStr(Dumps(IF obf_data.py = "none" THEN PyDict(<<>>) ELSE obf_data))

\* values of a column on the provider: ty is the column type, v the text
\* Postgres gives for the value
SqlNull == [ty |-> "null", v |-> ""]

ScalarValues ==
    {SqlNull} \cup {[ty |-> "text", v |-> s] : s \in {"", "x"}}
              \cup {[ty |-> "int", v |-> s] : s \in IntTexts}
              \cup {[ty |-> "bool", v |-> s] : s \in {"t", "f"}}

JsonValues == {[ty |-> "json", v |-> Dumps(d)] : d \in JsonDocs}

ObfCols == <<"id", "c">>

\* obf_col_map.get(field, SKIP)
RuleOf(field) == IF field \in DOMAIN obf_map THEN obf_map[field] ELSE SKIP

\* skytools.db_urldecode of the payload of logutriga: every value is text
UrlValue(sv) == IF sv.ty = "null" THEN PyNone ELSE PyStr(sv.v)

\* json.loads of the payload of jsontriga: numbers and booleans keep their
\* type, a JSON column is taken to arrive as its text
JsonValue(sv) ==
    CASE sv.ty = "null" -> PyNone
      [] sv.ty = "int" -> PyInt(sv.v)
      [] sv.ty = "bool" -> PyBool(sv.v = "t")
      [] OTHER -> PyStr(sv.v)

\* TableHandler.parse_row_data
BaseRow == [f \in DOMAIN obfRow |->
              IF obfFormat = "json" THEN JsonValue(obfRow[f]) ELSE UrlValue(obfRow[f])]

\* the COPY line of the row for the columns of column_list, field by field
CopyNull == "\\N"

CopyField(sv) == IF sv.ty = "null" THEN CopyNull ELSE sv.v

\* skytools.unescape_copy
unescape_copy(field) == IF field = CopyNull THEN PyNone ELSE PyStr(field)

\* skytools.quote_copy
quote_copy(value) == IF value.py = "none" THEN CopyNull ELSE value.v

\* the value a column takes from a COPY field or from the literal of a
\* Python value in a statement
StoredNull == [null |-> TRUE, text |-> ""]

FromCopy(field) ==
    IF field = CopyNull THEN StoredNull ELSE [null |-> FALSE, text |-> field]

FromLiteral(value) ==
    CASE value.py = "none" -> StoredNull
      [] value.py = "bool" -> [null |-> FALSE, text |-> IF value.v = "True" THEN "t" ELSE "f"]
      [] OTHER -> [null |-> FALSE, text |-> value.v]

\* Obfuscator.parse_row_data, one field that is not skipped
ReplayField(value, action) ==
    IF action.py = "dict" THEN ObfJsonColumn(value, action)
    ELSE IF action.v = "keep" THEN value
    ELSE IF action.v = "bool"
    THEN IF value.py = "none" THEN value ELSE PyStr(IF Truth(value) THEN "t" ELSE "f")
    ELSE IF action.v = "hash32" THEN hash32(value)
    ELSE IF action.v = "hash64" THEN hash64(value)
    ELSE hash128(value)

\* Obfuscator.parse_row_data
parse_row_data ==
    LET row == BaseRow
        kept == {f \in DOMAIN row : RuleOf(f) # SKIP}
    IN  [f \in kept |-> ReplayField(row[f], RuleOf(f))]

\* Obfuscator.obf_copy_row, one field that is not skipped
CopyFieldOut(value, action) ==
    IF action.py = "dict" THEN ObfJsonColumn(value, action)
    ELSE IF action.v = "keep" THEN value
    ELSE IF value.py = "none" THEN value
    ELSE IF action.v = "bool" THEN PyStr(IF Truth(value) THEN "t" ELSE "f")
    ELSE IF action.v = "hash32" THEN Str(hash32(value))
    ELSE IF action.v = "hash64" THEN Str(hash64(value))
    ELSE hash128(value)

\* Obfuscator.real_copy: the columns that are copied
CopyColumns == SelectSeq(ObfCols, LAMBDA col : RuleOf(col) # SKIP)

\* Obfuscator.obf_copy_row on the line of the row: data_to_dict, the rules,
\* obf_vals_to_data
obf_copy_row(column_list) ==
    LET data == [i \in 1..Len(column_list) |-> CopyField(obfRow[column_list[i]])]
        row == [i \in 1..Len(column_list) |-> unescape_copy(data[i])]
        kept == SelectSeq([i \in 1..Len(column_list) |-> i],
                          LAMBDA i : RuleOf(column_list[i]) # SKIP)
    IN  [k \in 1..Len(kept) |->
            quote_copy(CopyFieldOut(row[kept[k]], RuleOf(column_list[kept[k]])))]

InitObf ==
    /\ ObfAlone
    /\ \E idv \in {[ty |-> "int", v |-> s] : s \in IntTexts},
          idr \in {Action("keep"), Action("hash64")} :
           \/ \E cv \in ScalarValues, cr \in Actions :
                  /\ obfRow = ("id" :> idv) @@ ("c" :> cv)
                  /\ obf_map \in {("id" :> idr) @@ ("c" :> cr), ("c" :> cr)}
           \/ \E cv \in JsonValues \cup {SqlNull}, cr \in Actions \cup JsonRules :
                  /\ obfRow = ("id" :> idv) @@ ("c" :> cv)
                  /\ obf_map \in {("id" :> idr) @@ ("c" :> cr), ("c" :> cr)}
    /\ obfFormat \in {"urlenc", "json"}
    /\ obfReplay = <<>>
    /\ obfCopy = <<>>

\* the event of the row is replayed: the row that process_event writes
ObfReplayEvent ==
    /\ obfFormat # "none"
    /\ obfReplay = <<>>
    /\ LET dst == parse_row_data
       IN  obfReplay' = <<[f \in DOMAIN dst |-> FromLiteral(dst[f])]>>
    /\ UNCHANGED <<obf_map, obfRow, obfFormat, obfCopy>>
    /\ UNCHANGED obfRest

\* the row is copied: the line the write hook hands to COPY ... FROM
ObfCopyLine ==
    /\ obfFormat # "none"
    /\ obfCopy = <<>>
    /\ LET column_list == CopyColumns
           obf_data == obf_copy_row(column_list)
       IN  obfCopy' = <<[f \in {column_list[i] : i \in 1..Len(column_list)} |->
                           FromCopy(obf_data[CHOOSE i \in 1..Len(column_list) :
                                                 column_list[i] = f])]>>
    /\ UNCHANGED <<obf_map, obfRow, obfFormat, obfReplay>>
    /\ UNCHANGED obfRest

NextObf ==
    \/ ObfReplayEvent
    \/ ObfCopyLine

\* both ways of bringing the row over have been taken
ObfBoth == obfReplay # <<>> /\ obfCopy # <<>>

\* C22: with the same rule map and key, the row a replayed event leaves in
\* the table and the row its COPY line leaves there have the same columns
\* and the same values, for keep, skip, bool, hash32, hash64, hash, nested
\* JSON rules and null values, for urlencoded and JSON payloads.
C22_ReplayAsCopy == ObfBoth => obfReplay = obfCopy

\* the same for urlencoded payloads
C22_Urlenc == (ObfBoth /\ obfFormat = "urlenc") => obfReplay = obfCopy

\* the same for JSON payloads whose hashed columns hold no boolean and whose
\* bool columns hold text
C22_JsonText ==
    (/\ ObfBoth
     /\ obfFormat = "json"
     /\ \A f \in DOMAIN obfRow :
            \/ RuleOf(f).py = "dict"
            \/ RuleOf(f).v \in {"keep", "skip"}
            \/ obfRow[f].ty \in {"null", "text", "json"}
            \/ obfRow[f].ty = "int" /\ RuleOf(f).v # "bool")
        => obfReplay = obfCopy

\* ------------------------------------------------- one TableState object
\* transactions of the events, and the snapshots a copy may have been made
\* under
ObjTxids == 1..MaxObjTxid

ObjSnapshots == 2..MaxObjTxid

\* the object of a table as its worker first loads it: ok with the snapshot
\* of its copy for the main worker, catching-up or do-sync with it for the
\* copy worker
InitObject ==
    /\ TsAlone
    /\ tsCopy \in BOOLEAN
    /\ \E snap \in ObjSnapshots,
          row \in {[ms |-> "ok", tick |-> 0], [ms |-> "catching-up", tick |-> 0],
                   [ms |-> "do-sync", tick |-> MaxObjTick]} :
           /\ row.ms = "ok" <=> ~tsCopy
           /\ tsObj = loaded_state(NewTableState, [ms |-> row.ms, tick |-> row.tick,
                                                   snap |-> snap])
    /\ tsTick = 0
    /\ tsCalls = 0
    /\ tsSeen = {}

\* process_remote_batch: the next batch begins
TsNextBatch ==
    /\ tsTick < MaxObjTick
    /\ tsTick' = tsTick + 1
    /\ tsCalls' = 0
    /\ UNCHANGED <<tsObj, tsCopy, tsSeen>>
    /\ UNCHANGED tsRest

\* handle_data_event: interesting() is asked about an event of the table
TsInteresting(txid) ==
    /\ tsTick > 0
    /\ tsCalls < MaxObjCalls
    /\ tsCalls' = tsCalls + 1
    /\ tsObj' = AfterInteresting(tsObj, txid, tsTick, tsCopy, TRUE)
    /\ tsSeen' = IF tsObj.str_snapshot # None /\ Accepts(tsObj, txid, tsCopy, TRUE)
                 THEN tsSeen \cup {tsTick}
                 ELSE tsSeen
    /\ UNCHANGED <<tsCopy, tsTick>>
    /\ UNCHANGED tsRest

NextObject ==
    \/ TsNextBatch
    \/ \E txid \in ObjTxids : TsInteresting(txid)

\* batches so far in which the table took an event outside its snapshot
SeenBatches == Cardinality(tsSeen)

Outside == "x"

\* the foreign keys there may be between the tables and the outside table
AllKeys ==
    {k \in (Tables \cup {Outside}) \X (Tables \cup {Outside}) :
        k[1] # k[2] /\ (k[1] \in Tables \/ k[2] \in Tables)}

\* londiste.find_table_fkeys: the keys to and from the table
find_table_fkeys(keys, t) == {k \in keys : k[1] = t \/ k[2] = t}

RECURSIVE SeqOfSet(_)
SeqOfSet(S) ==
    IF S = {} THEN <<>>
    ELSE LET x == CHOOSE y \in S : TRUE IN <<x>> \o SeqOfSet(S \ {x})

\* a commit that is left out: the statements stay in the open transaction
NoCommit(log, tx) == log

\* dst_db.commit(): the open transaction becomes one entry of the log
Commit(log, tx) == Append(log, [kind |-> "commit", stmts |-> tx])

\* every table is missing and, on the provider, ok; a pass begins with
\* npossible free slots
InitFkeys ==
    /\ AkAlone
    /\ akKeys \in {K \in SUBSET AllKeys : Cardinality(K) <= MaxFkeys}
    /\ akKeys0 = akKeys
    /\ akState = [t \in Tables |-> "null"]
    /\ akTodo = TableSeq
    /\ akCur = ""
    /\ fkey_list = <<>>
    /\ akTx = <<>>
    /\ akLog = <<>>
    /\ npossible \in 1..MaxParallel
    /\ akPc = "loop"

\* the head of the for loop: the next missing table, the break on
\* npossible, and find_table_fkeys of drop_fkeys
AkNextTable ==
    /\ akPc = "loop"
    /\ IF akTodo = <<>> \/ npossible = 0
       THEN /\ akPc' = "done"
            /\ UNCHANGED <<akTodo, akCur, fkey_list, npossible>>
       ELSE /\ akCur' = Head(akTodo)
            /\ akTodo' = Tail(akTodo)
            /\ npossible' = npossible - 1
            /\ fkey_list' = SeqOfSet(find_table_fkeys(akKeys, Head(akTodo)))
            /\ akPc' = "drop_fkeys"
    /\ UNCHANGED <<akKeys, akKeys0, akState, akTx, akLog>>
    /\ UNCHANGED akRest

\* drop_fkeys, one round of its loop: drop_table_fkey and commit, or the
\* statement fails and the exception ends the pass with a rollback
AkDropKey(fails) ==
    /\ akPc = "drop_fkeys"
    /\ fkey_list # <<>>
    /\ IF fails
       THEN /\ akTx' = <<>>
            /\ akPc' = "failed"
            /\ UNCHANGED <<akKeys, fkey_list, akLog>>
       ELSE LET tx == Append(akTx, [op |-> "drop", key |-> Head(fkey_list)])
            IN  /\ akLog' = Commit(akLog, tx)
                /\ akTx' = IF akLog' = akLog THEN tx ELSE <<>>
                /\ akKeys' = akKeys \ {Head(fkey_list)}
                /\ fkey_list' = Tail(fkey_list)
                /\ UNCHANGED akPc
    /\ UNCHANGED <<akKeys0, akState, akTodo, akCur, npossible>>
    /\ UNCHANGED akRest

\* change_table_state(dst_db, t, TABLE_IN_COPY): change_state,
\* save_table_state, commit
AkInCopy ==
    /\ akPc = "drop_fkeys"
    /\ fkey_list = <<>>
    /\ akLog' = Append(akLog, [kind |-> "commit",
                               stmts |-> Append(akTx, [op |-> "in-copy", key |-> <<akCur>>])])
    /\ akTx' = <<>>
    /\ akState' = [akState EXCEPT ![akCur] = "in-copy"]
    /\ akPc' = "launch_copy"
    /\ UNCHANGED <<akKeys, akKeys0, akTodo, akCur, fkey_list, npossible>>
    /\ UNCHANGED akRest

\* launch_copy
AkLaunch ==
    /\ akPc = "launch_copy"
    /\ akLog' = Append(akLog, [kind |-> "launch", stmts |-> <<akCur>>])
    /\ akCur' = ""
    /\ akPc' = "loop"
    /\ UNCHANGED <<akKeys, akKeys0, akState, akTodo, fkey_list, akTx, npossible>>
    /\ UNCHANGED akRest

NextFkeys ==
    \/ AkNextTable
    \/ \E fails \in BOOLEAN : AkDropKey(fails)
    \/ AkInCopy
    \/ AkLaunch

\* positions of the log
LogAt(kind) == {i \in 1..Len(akLog) : akLog[i].kind = kind}

\* the transaction at i has committed just the one statement
CommitsOnly(i, op, key) == akLog[i].kind = "commit" /\ akLog[i].stmts = <<[op |-> op, key |-> key]>>

\* where the table's state in-copy was committed, and where its copy worker
\* was launched
InCopyAt(t) == {i \in LogAt("commit") : CommitsOnly(i, "in-copy", <<t>>)}

LaunchAt(t) == {i \in LogAt("launch") : akLog[i].stmts = <<t>>}

\* C26: when the main worker admits a missing table, every foreign key to or
\* from the table is dropped, each in a committed transaction of its own,
\* before the state in-copy of the table is committed; the copy worker is
\* launched only after that commit; and a failure while the keys are dropped
\* leaves the table missing.
C26_FkeysFirst ==
    /\ \A i \in LogAt("commit") : Len(akLog[i].stmts) = 1
    /\ \A t \in Tables :
          /\ akState[t] = "in-copy" <=> InCopyAt(t) # {}
          /\ \A i \in InCopyAt(t) :
                /\ find_table_fkeys(akKeys, t) = {}
                /\ \A k \in find_table_fkeys(akKeys0, t) :
                      \E j \in 1..(i - 1) : CommitsOnly(j, "drop", k)
          /\ \A l \in LaunchAt(t) : \E i \in InCopyAt(t) : i < l
    /\ akPc = "failed" => akState[akCur] = "null" /\ LaunchAt(akCur) = {}

\* a table with two keys or more was admitted and its copy worker launched
C26_Witness ==
    \E t \in Tables :
        /\ Cardinality(find_table_fkeys(akKeys0, t)) >= 2
        /\ LaunchAt(t) # {}

\* the dropping of the keys of a table failed after one of them was dropped
C26_WitnessFailed ==
    /\ akPc = "failed"
    /\ find_table_fkeys(akKeys0, akCur) # find_table_fkeys(akKeys, akCur)

\* ------------------------------------------- copy worker, pass by pass
\* copy_role as londiste.get_table_list gives it, "" for null
CopyRoles == {"", "lead", "wait-replay", "wait-copy"}

\* the catching-up branch of sync_from_copy_thread without the test of
\* dropped_ddl
CatchingUpNoDdl(copy_role, dropped_ddl, work) ==
    IF copy_role \in {"wait-replay", "lead"} THEN "wait"
    ELSE IF work # 0 THEN "batch"
    ELSE "wanna-sync"

\* the catching-up branch of sync_from_copy_thread: what the pass does
CatchingUp(copy_role, dropped_ddl, work) ==
    IF copy_role \in {"wait-replay", "lead"} THEN "wait"
    ELSE IF dropped_ddl THEN "restore"
    ELSE IF work # 0 THEN "batch"
    ELSE "wanna-sync"

\* the worker was launched for a table in in-copy and has registered at the
\* newest tick of the queue
InitCopySync ==
    /\ CsAlone
    /\ csRow \in [ms : {"in-copy"}, tick : {0}, copy_role : CopyRoles, dropped_ddl : {FALSE}]
    /\ csObj = <<>>
    /\ csQueue = 1
    /\ csCur = 1
    /\ csWork = 0
    /\ csRestored = FALSE
    /\ csPc = "idle"

\* the ticker
CsTick ==
    /\ csQueue < MaxCopyTick
    /\ csQueue' = csQueue + 1
    /\ UNCHANGED <<csRow, csObj, csCur, csWork, csRestored, csPc>>
    /\ UNCHANGED csRest

\* the partition merge moves on: get_table_list gives another copy_role
CsRole(role) ==
    /\ csRow.ms \in {"in-copy", "catching-up"}
    /\ csRow.copy_role # role
    /\ csRow' = [csRow EXCEPT !.copy_role = role]
    /\ UNCHANGED <<csObj, csQueue, csCur, csWork, csRestored, csPc>>
    /\ UNCHANGED csRest

\* the main worker answers wanna-sync with do-sync at a tick of its own
CsMainDoSync(tick) ==
    /\ csRow.ms = "wanna-sync"
    /\ tick >= csRow.tick
    /\ csRow' = [csRow EXCEPT !.ms = "do-sync", !.tick = tick]
    /\ UNCHANGED <<csObj, csQueue, csCur, csWork, csRestored, csPc>>
    /\ UNCHANGED csRest

\* process_remote_batch of the next batch, or sync_tables after its sleep:
\* load_table_state
CsLoad ==
    /\ \/ csPc = "idle" /\ csCur < csQueue /\ csCur' = csCur + 1
       \/ csPc = "sleep" /\ csCur' = csCur
    /\ csObj' = [state |-> StateOfRow(csRow), sync_tick_id |-> csRow.tick,
                 copy_role |-> csRow.copy_role, dropped_ddl |-> csRow.dropped_ddl]
    /\ csPc' = "sync"
    /\ UNCHANGED <<csRow, csQueue, csWork, csRestored>>
    /\ UNCHANGED csRest

\* one pass of sync_from_copy_thread; do_copy may leave dropped DDL behind
CsPass(drops) ==
    /\ csPc = "sync"
    /\ LET t == csObj
           todo == CatchingUp(t.copy_role, t.dropped_ddl, csWork)
       IN  CASE t.state = TABLE_DO_SYNC ->
                    /\ csRow' = IF csCur = t.sync_tick_id
                                THEN [csRow EXCEPT !.ms = "ok", !.tick = 0]
                                ELSE csRow
                    /\ csPc' = IF csCur = t.sync_tick_id THEN "exit"
                               ELSE IF csCur < t.sync_tick_id THEN "batch"
                               ELSE "raised"
                    /\ UNCHANGED <<csWork, csRestored>>
             [] t.state = TABLE_WANNA_SYNC ->
                    /\ csPc' = "sleep"
                    /\ UNCHANGED <<csRow, csWork, csRestored>>
             [] t.state = TABLE_CATCHING_UP ->
                    /\ csRow' = CASE todo = "restore" ->
                                       [csRow EXCEPT !.dropped_ddl = FALSE]
                                  [] todo = "wanna-sync" ->
                                       [csRow EXCEPT !.ms = "wanna-sync", !.tick = csCur]
                                  [] OTHER -> csRow
                    /\ csRestored' = (csRestored \/ todo = "restore")
                    /\ csPc' = IF todo \in {"restore", "batch"} THEN "batch" ELSE "sleep"
                    /\ UNCHANGED csWork
             [] t.state = TABLE_IN_COPY ->
                    /\ csRow' = [csRow EXCEPT !.ms = "catching-up", !.dropped_ddl = drops]
                    /\ csWork' = 1
                    /\ csPc' = "sleep"
                    /\ UNCHANGED csRestored
             [] OTHER ->
                    /\ csPc' = "exit"
                    /\ UNCHANGED <<csRow, csWork, csRestored>>
    /\ UNCHANGED <<csObj, csQueue, csCur>>
    /\ UNCHANGED csRest

\* the batch is processed and committed; work() is called again at once and
\* finds the next batch or nothing
CsBatch ==
    /\ csPc = "batch"
    /\ csWork' = IF csCur = csQueue THEN 0 ELSE 1
    /\ csPc' = "idle"
    /\ UNCHANGED <<csRow, csObj, csQueue, csCur, csRestored>>
    /\ UNCHANGED csRest

NextCopySync ==
    \/ CsTick
    \/ \E role \in CopyRoles : CsRole(role)
    \/ \E tick \in 1..MaxCopyTick : CsMainDoSync(tick)
    \/ CsLoad
    \/ \E drops \in BOOLEAN : CsPass(drops)
    \/ CsBatch

\* C28: the copy worker moves its table from catching-up to wanna-sync only
\* in a pass that found copy_role neither wait-replay nor lead, no dropped
\* DDL to restore and nothing processed by the preceding work cycle; no
\* table is wanna-sync, do-sync or ok while its dropped DDL is unrestored.
C28_WannaSync ==
    /\ [](csRow.ms \in {"wanna-sync", "do-sync", "ok"} => ~csRow.dropped_ddl)
    /\ [][(csRow.ms = "catching-up" /\ csRow'.ms = "wanna-sync") =>
             /\ csPc = "sync"
             /\ csObj.copy_role \notin {"wait-replay", "lead"}
             /\ ~csObj.dropped_ddl
             /\ ~csRow.dropped_ddl
             /\ csWork = 0]_vars

\* the copy left dropped DDL, the worker restored it and then asked for the
\* sync
C28_Witness == csRestored /\ csRow.ms = "wanna-sync"

\* ------------------------------------------- handler calls of one batch
PlugTables == {"t1", "t2"}
PlugTypes == {"I", "R", "EXECUTE"}

\* one call made to a handler, with the batch_info it was given
Call(name, arg) == [call |-> name, arg |-> arg]

\* used_plugins, the handlers' cur_tick and the calls made so far
PlugState == [used_plugins |-> plUsed, cur_tick |-> plCur, log |-> plLog]

\* applyfn.prepare_batch: the tick is kept only from a batch_info given
ApplyFnPrepare(cur_tick, batch_info) ==
    IF batch_info # None THEN batch_info ELSE cur_tick

\* try: p = used_plugins[ev.extra1]; except KeyError: p = t.get_plugin();
\* used_plugins[ev.extra1] = p; p.prepare_batch(batch_info, dst_curs)
UsePlugin(st, t, batch_info) ==
    IF t \in st.used_plugins THEN st
    ELSE [st EXCEPT !.used_plugins = @ \cup {t},
                    !.cur_tick[t] = ApplyFnPrepare(@, batch_info),
                    !.log[t] = Append(@, Call("prepare_batch", batch_info))]

\* handle_data_event: process_event is logged with the cur_tick the handler
\* passes on
PlugDataEvent(st, t, wanted) ==
    IF t \notin plLocal \/ ~wanted THEN st
    ELSE LET s1 == UsePlugin(st, t, plInfo)
         IN  [s1 EXCEPT !.log[t] = Append(@, Call("process_event", s1.cur_tick[t]))]

\* handle_truncate_event
PlugTruncateEvent(st, t, wanted) ==
    IF t \notin plLocal \/ ~wanted THEN st
    ELSE LET s1 == UsePlugin(st, t, plInfo)
         IN  [s1 EXCEPT !.log[t] = Append(@, Call("truncate", None))]

\* process_remote_event, as far as handlers are called
PlugRemoteEvent(st, type, t, wanted) ==
    CASE type = "I" -> PlugDataEvent(st, t, wanted)
      [] type = "R" -> PlugTruncateEvent(st, t, wanted)
      [] OTHER -> st

\* copy_event, as far as handlers are called
PlugCopyEvent(st, type, t) ==
    IF type = "I" /\ t \in plLocal
    THEN LET s1 == UsePlugin(st, t, None)
         IN  [s1 EXCEPT !.log[t] = Append(@, Call("get_copy_event", None))]
    ELSE st

\* a worker between batches; the node forwards events or does not, and the
\* framework hands each event to copy_event and to process_remote_event in
\* one of the two orders
InitPlugins ==
    /\ PlAlone
    /\ plNode \in [copy_events : BOOLEAN, copy_first : BOOLEAN]
    /\ plLocal \in {{"t1"}, PlugTables}
    /\ plInfo = 0
    /\ plUsed = {}
    /\ plCur = [t \in PlugTables |-> None]
    /\ plLog = [t \in PlugTables |-> <<>>]
    /\ plLeft = 0
    /\ plPc = "idle"

\* process_remote_batch up to the events: used_plugins is emptied
PlBegin ==
    /\ plPc = "idle"
    /\ plInfo < MaxPlugBatch
    /\ plInfo' = plInfo + 1
    /\ plUsed' = {}
    /\ plLog' = [t \in PlugTables |-> <<>>]
    /\ plLeft' = MaxPlugEvents
    /\ plPc' = "events"
    /\ UNCHANGED <<plNode, plLocal, plCur>>
    /\ UNCHANGED plRest

\* one event of the batch goes through copy_event and process_remote_event
PlEvent(type, t, wanted) ==
    /\ plPc = "events"
    /\ plLeft > 0
    /\ LET copied(st) == IF plNode.copy_events THEN PlugCopyEvent(st, type, t) ELSE st
           handled(st) == PlugRemoteEvent(st, type, t, wanted)
           st1 == IF plNode.copy_first THEN handled(copied(PlugState))
                  ELSE copied(handled(PlugState))
       IN  /\ plUsed' = st1.used_plugins
           /\ plCur' = st1.cur_tick
           /\ plLog' = st1.log
    /\ plLeft' = plLeft - 1
    /\ UNCHANGED <<plNode, plLocal, plInfo, plPc>>
    /\ UNCHANGED plRest

\* the rest of process_remote_batch: finish_batch of every used handler,
\* then save_table_state
PlFinish ==
    /\ plPc = "events"
    /\ plLog' = [t \in PlugTables |->
                    (IF t \in plUsed THEN Append(plLog[t], Call("finish_batch", plInfo))
                     ELSE plLog[t]) \o <<Call("save_table_state", None)>>]
    /\ plUsed' = {}
    /\ plLeft' = 0
    /\ plPc' = "idle"
    /\ UNCHANGED <<plNode, plLocal, plInfo, plCur>>
    /\ UNCHANGED plRest

NextPlugins ==
    \/ PlBegin
    \/ \E type \in PlugTypes, t \in PlugTables, wanted \in BOOLEAN :
           PlEvent(type, t, wanted)
    \/ PlFinish

\* places of the calls of one name in a handler's log
CallsOf(log, name) == {i \in 1..Len(log) : log[i].call = name}

\* places of the calls that hand the handler an event
EventCalls(log) ==
    CallsOf(log, "process_event") \cup CallsOf(log, "truncate")
        \cup CallsOf(log, "get_copy_event")

\* prepare_batch was called once and before every process_event
PreparedOnce(log) ==
    /\ Cardinality(CallsOf(log, "prepare_batch")) = 1
    /\ \A i \in CallsOf(log, "prepare_batch"), j \in EventCalls(log) : i < j

\* finish_batch was called once with the batch's batch_info, after every
\* event and before the save
FinishedOnce(log) ==
    /\ Cardinality(CallsOf(log, "finish_batch")) = 1
    /\ CallsOf(log, "save_table_state") # {}
    /\ \A i \in CallsOf(log, "finish_batch") :
           /\ log[i].arg = plInfo
           /\ \A j \in EventCalls(log) : j < i
           /\ \A k \in CallsOf(log, "save_table_state") : i < k

\* tables with an event handled in the batch at hand
HandledTables == {t \in PlugTables : CallsOf(plLog[t], "process_event") # {}}

\* C29: in every batch, for every table with an event handled in it,
\* prepare_batch is called exactly once, with the batch's batch_info and
\* before the first process_event, and finish_batch exactly once after the
\* last event and before the table state is saved, whether copy_event or
\* process_remote_event sees the table first.
C29_PrepareFinish ==
    \A t \in HandledTables :
        /\ PreparedOnce(plLog[t])
        /\ \A i \in CallsOf(plLog[t], "prepare_batch") : plLog[t][i].arg = plInfo
        /\ plPc = "idle" => FinishedOnce(plLog[t])

\* the calls come once and in order, whatever prepare_batch was given
C29_CallOrder ==
    \A t \in HandledTables :
        /\ PreparedOnce(plLog[t])
        /\ plPc = "idle" => FinishedOnce(plLog[t])

\* prepare_batch gets the batch's batch_info where process_remote_event
\* sees the table first, and None where copy_event does
C29_InfoByFirstCall ==
    \A t \in HandledTables :
        \A i \in CallsOf(plLog[t], "prepare_batch") :
            plLog[t][i].arg =
                IF plLog[t][i + 1].call = "get_copy_event" THEN None ELSE plInfo

\* process_event of applyfn passes on the tick of the batch at hand
C29_ApplyFnTick ==
    \A t \in PlugTables :
        \A i \in CallsOf(plLog[t], "process_event") : plLog[t][i].arg = plInfo

\* a batch on a forwarding node ended with a table handled that copy_event
\* saw first
C29_CopyFirst ==
    /\ plPc = "idle"
    /\ \E t \in HandledTables :
           /\ plLog[t][1] = Call("prepare_batch", None)
           /\ plLog[t][2].call = "get_copy_event"

\* ------------------------------------------- parallel-copy slots
SlotTables == <<"t1", "t2", "t3">>
SlotNames == {SlotTables[i] : i \in 1..Len(SlotTables)}

\* fill_copy_method: the pool size for a table matching a pattern of
\* threaded_copy_tables, None for any other
fill_copy_method(cfg) ==
    [t \in SlotNames |-> IF t \in cfg.threaded THEN cfg.threaded_copy_pool_size ELSE None]

\* Counter.copy of one table in in-copy
CopyThreads(nthreads) == IF nthreads = None THEN 1 ELSE nthreads

RECURSIVE CounterSum(_, _, _)
CounterSum(i, states, copy_method_map) ==
    IF i > Len(SlotTables) THEN 0
    ELSE LET t == SlotTables[i]
             n == CASE states[t] = TABLE_IN_COPY -> CopyThreads(copy_method_map[t])
                    [] states[t] \in {TABLE_CATCHING_UP, TABLE_WANNA_SYNC, TABLE_DO_SYNC} -> 1
                    [] OTHER -> 0
         IN  n + CounterSum(i + 1, states, copy_method_map)

\* Counter(...).get_copy_count() with copy_method_map
CounterCopyCount(states, copy_method_map) == CounterSum(1, states, copy_method_map)

\* the loop over the missing tables of sync_from_main_thread: the tables it
\* moves to in-copy
RECURSIVE AdmitLoop(_, _, _, _)
AdmitLoop(i, nleft, usable, states) ==
    IF i > Len(SlotTables) THEN {}
    ELSE LET t == SlotTables[i]
         IN  IF states[t] # TABLE_MISSING \/ t \notin usable
             THEN AdmitLoop(i + 1, nleft, usable, states)
             ELSE IF nleft = 0 THEN {}
             ELSE {t} \cup AdmitLoop(i + 1, nleft - 1, usable, states)

\* "now handle new copies" of sync_from_main_thread
NewCopies(usable, states) ==
    LET nleft == slCfg.parallel_copies - CounterCopyCount(states, fill_copy_method(slCfg))
        missing == {t \in SlotNames : states[t] = TABLE_MISSING}
    IN  IF missing # {} /\ nleft > 0
        THEN AdmitLoop(1, nleft, usable, states) ELSE {}

\* a node with every table missing
InitSlots ==
    /\ SlAlone
    /\ slCfg \in [parallel_copies : 1..MaxSlots,
                  threaded_copy_pool_size : 1..MaxPool,
                  threaded : SUBSET SlotNames]
    /\ slState = [t \in SlotNames |-> TABLE_MISSING]
    /\ slAdmits = 0

\* a pass of the main worker; usable are the tables its provider has in ok
SlMainPass(usable) ==
    /\ slAdmits < MaxAdmits
    /\ NewCopies(usable, slState) # {}
    /\ slState' = [t \in SlotNames |->
                      IF t \in NewCopies(usable, slState) THEN TABLE_IN_COPY ELSE slState[t]]
    /\ slAdmits' = slAdmits + 1
    /\ UNCHANGED slCfg
    /\ UNCHANGED slRest

\* the copy of a table moves on by one state
SlMoveOn(t) ==
    /\ slState[t] \in {TABLE_IN_COPY, TABLE_CATCHING_UP, TABLE_WANNA_SYNC, TABLE_DO_SYNC}
    /\ slState' = [slState EXCEPT ![t] =
                      CASE @ = TABLE_IN_COPY -> TABLE_CATCHING_UP
                        [] @ = TABLE_CATCHING_UP -> TABLE_WANNA_SYNC
                        [] @ = TABLE_WANNA_SYNC -> TABLE_DO_SYNC
                        [] OTHER -> TABLE_OK]
    /\ UNCHANGED <<slCfg, slAdmits>>
    /\ UNCHANGED slRest

\* the table is removed and added again
SlReAdd(t) ==
    /\ slState[t] = TABLE_OK
    /\ slState' = [slState EXCEPT ![t] = TABLE_MISSING]
    /\ UNCHANGED <<slCfg, slAdmits>>
    /\ UNCHANGED slRest

NextSlots ==
    \/ \E usable \in SUBSET SlotNames : SlMainPass(usable)
    \/ \E t \in SlotNames : SlMoveOn(t)
    \/ \E t \in SlotNames : SlReAdd(t)

\* slots taken: the pool size for an in-copy table matching
\* threaded_copy_tables, one for any other table being copied
SlotTotal(states) ==
    CounterCopyCount(states,
        [t \in SlotNames |-> IF t \in slCfg.threaded THEN slCfg.threaded_copy_pool_size ELSE None])

\* the step admits a table
SlAdmitting == \E t \in SlotNames : slState[t] = TABLE_MISSING /\ slState'[t] = TABLE_IN_COPY

\* C30: counting threaded_copy_pool_size slots for each in-copy table that
\* matches threaded_copy_tables and one slot for every other table being
\* copied, the main worker never admits a table when doing so makes the
\* slot total exceed parallel_copies.
C30_NoOverCommit ==
    [][SlAdmitting => SlotTotal(slState') <= slCfg.parallel_copies]_vars

\* admission counts one slot for each table it admits: the slots taken
\* before the pass and the tables admitted by it fit parallel_copies
C30_OnePerAdmitted ==
    [][SlAdmitting =>
          SlotTotal(slState)
            + Cardinality({t \in SlotNames : slState[t] # slState'[t]})
              <= slCfg.parallel_copies]_vars

\* with a pool of one thread, or no table matching threaded_copy_tables,
\* the slots are never over-committed
C30_PlainTables ==
    (slCfg.threaded = {} \/ slCfg.threaded_copy_pool_size = 1) =>
        SlotTotal(slState) <= slCfg.parallel_copies

\* a threaded table was admitted into the last free slot
C30_Threaded ==
    \E t \in slCfg.threaded :
        /\ slState[t] = TABLE_IN_COPY
        /\ slCfg.threaded_copy_pool_size > 1
        /\ SlotTotal(slState) > slCfg.parallel_copies

\* ------------------------------------------- shard info, batch by batch
ShardedTables == {"t1", "t2"}

\* rows of partconf.conf that load_shard_info accepts
ShardInfos ==
    {c \in [shard_nr : 0..MaxInfoMask, shard_mask : 0..MaxInfoMask] :
        load_shard_info(c.shard_nr, c.shard_mask, c.shard_mask + 1) = "ok"}

\* _SHARD_NR = None, _SHARD_MASK = None
NoShardInfo == [loaded |-> FALSE, shard_nr |-> 0, shard_mask |-> 0]

\* _SHARD_NR and _SHARD_MASK after load_shard_info
LoadedInfo(conf) ==
    [loaded |-> TRUE, shard_nr |-> conf.shard_nr, shard_mask |-> conf.shard_mask]

\* a prepare_batch that reads partconf.conf whenever it is called
PrepareBatchReload(shard, conf) == LoadedInfo(conf)

\* ShardHandler.prepare_batch: load_shard_info only while _SHARD_MASK is None
PrepareBatchShard(shard, conf) ==
    IF ~shard.loaded THEN LoadedInfo(conf) ELSE shard

\* the worker starts with the module just imported
InitShardInfo ==
    /\ SbAlone
    /\ sbConf \in ShardInfos
    /\ sbShard = NoShardInfo
    /\ sbBatch = 0
    /\ sbUsed = {}
    /\ sbReads = 0
    /\ sbTotal = 0
    /\ sbAtFirst = <<>>
    /\ sbApplied = {}
    /\ sbPc = "idle"

\* the node's shard configuration is changed between two batches
SbReconfigure(conf) ==
    /\ sbPc = "idle"
    /\ conf # sbConf
    /\ sbConf' = conf
    /\ UNCHANGED <<sbShard, sbBatch, sbUsed, sbReads, sbTotal, sbAtFirst, sbApplied, sbPc>>
    /\ UNCHANGED sbRest

\* process_remote_batch up to the events
SbBegin ==
    /\ sbPc = "idle"
    /\ sbBatch < MaxShardBatch
    /\ sbBatch' = sbBatch + 1
    /\ sbUsed' = {}
    /\ sbReads' = 0
    /\ sbAtFirst' = <<>>
    /\ sbApplied' = {}
    /\ sbPc' = "events"
    /\ UNCHANGED <<sbConf, sbShard, sbTotal>>
    /\ UNCHANGED sbRest

\* handle_data_event of an event for sharded table t: prepare_batch for the
\* table's first event of the batch, then process_event
SbEvent(t, meta_hash) ==
    /\ sbPc = "events"
    /\ LET first == t \notin sbUsed
           shard == IF first THEN PrepareBatchShard(sbShard, sbConf) ELSE sbShard
           read == IF first /\ shard # sbShard THEN 1 ELSE 0
       IN  /\ sbShard' = shard
           /\ sbReads' = sbReads + read
           /\ sbTotal' = sbTotal + read
           /\ sbApplied' =
                 IF is_local_shard_event(meta_hash, shard.shard_mask, shard.shard_nr)
                 THEN sbApplied \cup {meta_hash} ELSE sbApplied
    /\ sbUsed' = sbUsed \cup {t}
    /\ sbAtFirst' = IF sbUsed = {} THEN sbConf ELSE sbAtFirst
    /\ UNCHANGED <<sbConf, sbBatch, sbPc>>
    /\ UNCHANGED sbRest

\* the rest of process_remote_batch
SbFinish ==
    /\ sbPc = "events"
    /\ sbUsed' = {}
    /\ sbPc' = "idle"
    /\ UNCHANGED <<sbConf, sbShard, sbBatch, sbReads, sbTotal, sbAtFirst, sbApplied>>
    /\ UNCHANGED sbRest

NextShardInfo ==
    \/ \E conf \in ShardInfos : SbReconfigure(conf)
    \/ SbBegin
    \/ \E t \in ShardedTables, meta_hash \in 0..MaxInfoHash : SbEvent(t, meta_hash)
    \/ SbFinish

COPY_MERGE_BUF == 2

\* the bytes of row number id, len of them
RowBytes(id, len) == [i \in 1..len |-> <<id, i>>]

RECURSIVE Concat(_)
Concat(seqs) == IF seqs = <<>> THEN <<>> ELSE Head(seqs) \o Concat(Tail(seqs))

\* data[:size] and data[size:]
DataUpTo(data, size) == SubSeq(data, 1, IF Len(data) > size THEN size ELSE Len(data))
DataFrom(data, size) == SubSeq(data, size + 1, Len(data))

\* a send_blocks that keeps to the first pipe
SendToFirst(nr, parallel) == 1

\* send_blocks, as far as the pipe number goes
SendTo(nr, parallel) == (nr % parallel) + 1

\* a copy about to start, with its inserters waiting on their pipes
InitPipe ==
    /\ CpAlone
    /\ cpParallel \in 1..MaxPipes
    /\ cpWritten = <<>>
    /\ block_buf = <<>>
    /\ block_buf_len = 0
    /\ send_pos = 0
    /\ cpPipe = [i \in 1..cpParallel |-> <<>>]
    /\ cpSent = <<>>
    /\ rdBlocks = [i \in 1..cpParallel |-> <<>>]
    /\ rdBuf = [i \in 1..cpParallel |-> <<>>]
    /\ rdOut = [i \in 1..cpParallel |-> <<>>]
    /\ rdState = [i \in 1..cpParallel |-> "run"]
    /\ cpPc = "copy"

\* write: one row from the source's COPY; send_blocks when the buffer has
\* grown past COPY_MERGE_BUF.  A send to an inserter that has failed may
\* raise (broken), which ends the copy through the flush of
\* full_copy_parallel.
CpWrite(len, broken) ==
    /\ cpPc = "copy"
    /\ Len(cpWritten) < MaxPipeRows
    /\ LET data == RowBytes(Len(cpWritten) + 1, len)
           buf == Append(block_buf, data)
           nr == SendTo(send_pos, cpParallel)
       IN  /\ cpWritten' = Append(cpWritten, data)
           /\ IF block_buf_len + len > COPY_MERGE_BUF
              THEN IF broken /\ rdState[nr] = "failed"
                   THEN /\ block_buf' = buf
                        /\ block_buf_len' = block_buf_len + len
                        /\ cpPc' = "raised"
                        /\ UNCHANGED <<send_pos, cpPipe, cpSent>>
                   ELSE /\ cpPipe' = [cpPipe EXCEPT ![nr] = Append(@, buf)]
                        /\ cpSent' = Append(cpSent, [pipe |-> nr, rows |-> buf])
                        /\ block_buf' = <<>>
                        /\ block_buf_len' = 0
                        /\ send_pos' = send_pos + 1
                        /\ UNCHANGED cpPc
              ELSE /\ block_buf' = buf
                   /\ block_buf_len' = block_buf_len + len
                   /\ UNCHANGED <<send_pos, cpPipe, cpSent, cpPc>>
    /\ UNCHANGED <<cpParallel, rdBlocks, rdBuf, rdOut, rdState>>
    /\ UNCHANGED cpRest

\* flush up to the join: the rest of the buffer is sent, the pipes are closed
CpFlush(broken) ==
    /\ cpPc = "copy"
    /\ LET nr == SendTo(send_pos, cpParallel)
       IN  IF block_buf # <<>>
           THEN IF broken /\ rdState[nr] = "failed"
                THEN /\ cpPc' = "raised"
                     /\ UNCHANGED <<block_buf, block_buf_len, send_pos, cpPipe, cpSent>>
                ELSE /\ cpPipe' = [cpPipe EXCEPT ![nr] = Append(@, block_buf)]
                     /\ cpSent' = Append(cpSent, [pipe |-> nr, rows |-> block_buf])
                     /\ block_buf' = <<>>
                     /\ block_buf_len' = 0
                     /\ send_pos' = send_pos + 1
                     /\ cpPc' = "join"
           ELSE /\ cpPc' = "join"
                /\ UNCHANGED <<block_buf, block_buf_len, send_pos, cpPipe, cpSent>>
    /\ UNCHANGED <<cpParallel, cpWritten, rdBlocks, rdBuf, rdOut, rdState>>
    /\ UNCHANGED cpRest

\* the rest of flush: f.result() of every inserter, which raises what the
\* inserter raised
CpJoin ==
    /\ cpPc = "join"
    /\ \A i \in 1..cpParallel : rdState[i] # "run"
    /\ cpPc' = IF \E i \in 1..cpParallel : rdState[i] = "failed" THEN "raised" ELSE "done"
    /\ UNCHANGED <<cpParallel, cpWritten, block_buf, block_buf_len, send_pos, cpPipe,
                   cpSent, rdBlocks, rdBuf, rdOut, rdState>>
    /\ UNCHANGED cpRest

\* MPipeReader.read(size) of inserter i; at the end of the pipe it returns
\* b"" and the inserter commits
RdRead(i, size) ==
    /\ rdState[i] = "run"
    /\ IF rdBuf[i] # <<>>
       THEN /\ rdOut' = [rdOut EXCEPT ![i] = @ \o DataUpTo(rdBuf[i], size)]
            /\ rdBuf' = [rdBuf EXCEPT ![i] = DataFrom(@, size)]
            /\ UNCHANGED <<rdBlocks, cpPipe, rdState>>
       ELSE IF rdBlocks[i] = <<>> /\ cpPipe[i] = <<>>
       THEN /\ cpPc \in {"join", "done", "raised"}
            /\ rdState' = [rdState EXCEPT ![i] = "eof"]
            /\ UNCHANGED <<rdBlocks, rdBuf, rdOut, cpPipe>>
       ELSE LET recv == rdBlocks[i] = <<>>
                blocks == IF recv THEN Head(cpPipe[i]) ELSE rdBlocks[i]
                data == Head(blocks)
            IN  /\ cpPipe' = IF recv THEN [cpPipe EXCEPT ![i] = Tail(@)] ELSE cpPipe
                /\ rdBlocks' = [rdBlocks EXCEPT ![i] = Tail(blocks)]
                /\ rdOut' = [rdOut EXCEPT ![i] = @ \o DataUpTo(data, size)]
                /\ rdBuf' = [rdBuf EXCEPT ![i] = DataFrom(data, size)]
                /\ UNCHANGED rdState
    /\ UNCHANGED <<cpParallel, cpWritten, block_buf, block_buf_len, send_pos, cpSent, cpPc>>
    /\ UNCHANGED cpRest

\* the COPY of inserter i fails
RdFail(i) ==
    /\ rdState[i] = "run"
    /\ rdState' = [rdState EXCEPT ![i] = "failed"]
    /\ UNCHANGED <<cpParallel, cpWritten, block_buf, block_buf_len, send_pos, cpPipe,
                   cpSent, rdBlocks, rdBuf, rdOut, cpPc>>
    /\ UNCHANGED cpRest

NextPipe ==
    \/ \E len \in 1..MaxRowLen, broken \in BOOLEAN : CpWrite(len, broken)
    \/ \E broken \in BOOLEAN : CpFlush(broken)
    \/ CpJoin
    \/ \E i \in 1..MaxPipes, size \in 1..MaxRead : i <= cpParallel /\ RdRead(i, size)
    \/ \E i \in 1..MaxPipes : i <= cpParallel /\ RdFail(i)

\* the rows of the blocks sent to pipe i, block after block
RowsSentTo(i) ==
    Concat([k \in 1..Len(SelectSeq(cpSent, LAMBDA b : b.pipe = i)) |->
               SelectSeq(cpSent, LAMBDA b : b.pipe = i)[k].rows])

\* every row sent so far, block after block
RowsSent == Concat([k \in 1..Len(cpSent) |-> cpSent[k].rows])

\* C32: every written row goes to exactly one inserter pipe, none lost,
\* duplicated or split across blocks; rows are buffered until the buffer
\* exceeds COPY_MERGE_BUF, the k-th block sent goes to pipe k mod parallel,
\* flush sends the rest of the buffer before it closes the pipes and joins
\* the inserters, and raises if an inserter failed.
C32_RowsDelivered ==
    /\ cpPc # "raised" => RowsSent \o block_buf = cpWritten
    /\ cpPc # "raised" => block_buf_len <= COPY_MERGE_BUF
    /\ block_buf_len = Len(Concat(block_buf))
    /\ send_pos = Len(cpSent)
    /\ \A k \in 1..Len(cpSent) :
          /\ cpSent[k].pipe = ((k - 1) % cpParallel) + 1
          /\ cpSent[k].rows # <<>>
          /\ k < Len(cpSent) \/ cpPc = "copy" => Len(Concat(cpSent[k].rows)) > COPY_MERGE_BUF
    /\ \A i \in 1..cpParallel :
          LET all == Concat(RowsSentTo(i))
          IN  /\ Len(rdOut[i]) <= Len(all)
              /\ rdOut[i] = SubSeq(all, 1, Len(rdOut[i]))
              /\ rdState[i] = "eof" => rdOut[i] = all
    /\ cpPc \in {"join", "done"} => block_buf = <<>>
    /\ cpPc = "done" =>
          /\ \A i \in 1..cpParallel : rdState[i] = "eof"
          /\ RowsSent = cpWritten
    /\ (cpPc \in {"join", "done", "raised"} /\ \E i \in 1..cpParallel : rdState[i] = "failed")
          => cpPc # "done"

\* a copy over two pipes ended with blocks read from both of them
C32_Witness ==
    /\ cpPc = "done"
    /\ cpParallel = 2
    /\ Len(cpSent) >= 2
    /\ \A i \in 1..cpParallel : rdOut[i] # <<>>

\* an inserter failed and flush raised
C32_WitnessFailed ==
    /\ cpPc = "raised"
    /\ \E i \in 1..cpParallel : rdState[i] = "failed"
    /\ block_buf = <<>>

\* ------------------------------------------- one table, copy after copy
\* a table just added: no state, no snapshot, and a main worker without an
\* object for it yet
InitGc ==
    /\ GsAlone
    /\ gsRow = [ms |-> "null", tick |-> 0, snap |-> None]
    /\ gsObj = NewTableState
    /\ gsCopies = 0
    /\ gsTick = 0
    /\ gsPrev = 0
    /\ gsSeen = {}

\* the table is admitted and copied: its row goes from null to in-copy, to
\* catching-up with the snapshot of the copy, and on to ok
GsCopyStep ==
    /\ gsRow.ms \in {"null", "in-copy", "catching-up"}
    /\ gsRow.ms = "null" => gsCopies < MaxGcCopies
    /\ gsRow' = CASE gsRow.ms = "null" -> [gsRow EXCEPT !.ms = "in-copy"]
                  [] gsRow.ms = "in-copy" ->
                        [gsRow EXCEPT !.ms = "catching-up", !.snap = gsCopies + 1]
                  [] OTHER -> [gsRow EXCEPT !.ms = "ok"]
    /\ gsCopies' = IF gsRow.ms = "in-copy" THEN gsCopies + 1 ELSE gsCopies
    /\ UNCHANGED <<gsObj, gsTick, gsPrev, gsSeen>>
    /\ UNCHANGED gsRest

\* cmd_resync: local_set_table_state(queue, table, null, null)
GsResync ==
    /\ gsRow.ms = "ok"
    /\ gsCopies < MaxGcCopies
    /\ gsRow' = [ms |-> "null", tick |-> 0, snap |-> None]
    /\ UNCHANGED <<gsObj, gsCopies, gsTick, gsPrev, gsSeen>>
    /\ UNCHANGED gsRest

\* a batch of the main worker that ends at tick cur_tick: load_table_state
\* into the object it has, copy_snapshot_cleanup, save_table_state
GsBatch(cur_tick, no_lag) ==
    /\ cur_tick > gsTick
    /\ cur_tick <= MaxGcTick
    /\ LET loaded == loaded_state(gsObj, gsRow)
           t == gc_snapshot(loaded, FALSE, gsTick, cur_tick, no_lag)
       IN  /\ gsRow' = IF t.changed THEN SavedRow(t) ELSE gsRow
           /\ gsObj' = [t EXCEPT !.changed = FALSE]
           /\ gsSeen' = IF no_lag /\ loaded.str_snapshot # None /\ loaded.state = TABLE_OK
                        THEN gsSeen \cup {<<loaded.str_snapshot, cur_tick>>}
                        ELSE gsSeen
    /\ gsPrev' = gsTick
    /\ gsTick' = cur_tick
    /\ UNCHANGED gsCopies
    /\ UNCHANGED gsRest

NextGc ==
    \/ GsCopyStep
    \/ GsResync
    \/ \E cur_tick \in 1..MaxGcTick, no_lag \in BOOLEAN : GsBatch(cur_tick, no_lag)

\* the step is a gc_snapshot that clears the snapshot of the table
GcClears == gsRow.snap # None /\ gsRow'.snap = None /\ gsRow'.ms = "ok"

\* the worker saw snapshot snap without lag at a tick before prev_tick
SeenBefore(snap, prev_tick) ==
    \E k \in 1..MaxGcTick : <<snap, k>> \in gsSeen /\ k < prev_tick

\* C34: gc_snapshot clears a table's snapshot only after the worker has
\* seen that same snapshot without lag at some tick and a later batch has
\* started past that tick; the snapshot of a later copy of the table is
\* never cleared on a last_snapshot_tick recorded for an earlier snapshot.
C34_OwnSnapshotSeen ==
    [][GcClears => SeenBefore(gsRow.snap, gsPrev')]_vars

\* the same for the first copy of the table
C34_FirstCopy ==
    [][(GcClears /\ gsCopies = 1) => SeenBefore(gsRow.snap, gsPrev')]_vars

\* whenever gc_snapshot clears, some snapshot of the table was seen without
\* lag at a tick before the batch began
C34_SomeSnapshotSeen ==
    [][GcClears => \E snap \in 1..MaxGcCopies : SeenBefore(snap, gsPrev')]_vars

\* the snapshot of the second copy is gone and was never seen without lag
C34_Stale ==
    /\ gsCopies = 2
    /\ gsRow = [ms |-> "ok", tick |-> 0, snap |-> None]
    /\ \A k \in 1..MaxGcTick : <<2, k>> \notin gsSeen

\* --------------------------------------------------- bulk loader, flushing
BulkPkeys == <<"id">>                  \* primary key of the destination table
NoFields == <<"None">>                 \* dist_fields = None
\* what gp_distribution_policy may hold for the table
Policies == {<<>>, <<"id">>, <<"region">>, <<"region", "id">>}
BulkPhases == <<"delete", "update", "insert">>

\* find_dist_fields: no catalog, no fields; else the columns of the policy
find_dist_fields(gp, policy) == IF ~gp THEN <<>> ELSE policy

\* for key in dist_fields: if key not in keys: keys.append(key)
RECURSIVE AddKeys(_, _, _)
AddKeys(keys, fields, i) ==
    IF i > Len(fields) THEN keys
    ELSE AddKeys(IF \E k \in 1..Len(keys) : keys[k] = fields[i]
                   THEN keys ELSE Append(keys, fields[i]),
                 fields, i + 1)

\* a new BulkLoader on a destination database
InitBulkFlush ==
    /\ BfAlone
    /\ bfGp \in BOOLEAN
    /\ bfPolicy \in (IF bfGp THEN Policies ELSE {<<>>})
    /\ bfAssert \in BOOLEAN
    /\ dist_fields = NoFields
    /\ bfKeys = BulkPkeys
    /\ bfOpMap = [op \in Ops |-> 0]
    /\ bfPhases = <<>>
    /\ bfFlushes = 0
    /\ bfPc = "idle"

\* BulkLoader.bulk_flush with the rows of op_map; after an exception the
\* worker retries the batch with the same loader
BfFlush(op_map) ==
    /\ bfPc \in {"idle", "flushed", "raised"}
    /\ bfFlushes < MaxFlushes
    /\ bfFlushes' = bfFlushes + 1
    /\ bfOpMap' = op_map
    /\ LET fetch == dist_fields = NoFields
           found == find_dist_fields(bfGp, bfPolicy)
       IN /\ dist_fields' = IF fetch THEN found ELSE dist_fields
          /\ IF fetch /\ bfAssert /\ found = <<>>
               THEN /\ bfPc' = "raised"
                    /\ bfPhases' = <<>>
                    /\ UNCHANGED bfKeys
               ELSE /\ bfPc' = "flushed"
                    /\ bfPhases' = BulkPhases
                    /\ bfKeys' = IF fetch THEN AddKeys(bfKeys, found, 1) ELSE bfKeys
    /\ UNCHANGED <<bfGp, bfPolicy, bfAssert>>
    /\ UNCHANGED bfRest

\* the worker is started again: Dispatcher builds a new loader
BfNewLoader ==
    /\ bfPc = "raised"
    /\ dist_fields' = NoFields
    /\ bfKeys' = BulkPkeys
    /\ bfPc' = "idle"
    /\ UNCHANGED <<bfGp, bfPolicy, bfAssert, bfOpMap, bfPhases, bfFlushes>>
    /\ UNCHANGED bfRest

NextBulkFlush ==
    \/ \E op_map \in [Ops -> 0..MaxBulkRows] : BfFlush(op_map)
    \/ BfNewLoader

\* C36: whenever a BulkLoader is flushed, bulk_flush goes through its
\* delete, update and insert phases in that order; its assertion on
\* dist_fields holds also where find_dist_fields returns an empty list.
C36_PhasesComplete ==
    bfFlushes > 0 => (bfPc = "flushed" /\ bfPhases = BulkPhases)

\* the same on a destination whose table has distribution keys
C36_WithDistKeys ==
    (bfFlushes > 0 /\ bfGp /\ bfPolicy # <<>>) =>
        (bfPc = "flushed" /\ bfPhases = BulkPhases)

\* a flush on a database without distribution keys stops at the assertion
C36_Raised ==
    bfPc = "raised" /\ ~bfGp /\ bfPhases = <<>> /\ dist_fields = <<>>

\* ------------------------------------------ add-table, trigger arguments
TgFlagNames == {"trigger_flags", "no_triggers", "merge_all", "no_merge", "expect_sync"}
\* the argument each flag stands for in the list (tgflags=... with its value)
TgFlagArg ==
    [f \in TgFlagNames |-> IF f = "trigger_flags" THEN "tgflags=AIUD" ELSE f]
\* the order build_tgargs tests the flags in
TgFlagOrder == <<"trigger_flags", "no_triggers", "merge_all", "no_merge", "expect_sync">>
TgHandlers == {"none", "vtable", "multimaster"}
\* what --trigger-arg may have been given
TgGivenArgs == {<<>>, <<"ev_extra4=x">>}

\* BaseHandler.add of the handler: the arguments it appends
HandlerAdds(handler) ==
    CASE handler = "vtable" -> <<"virtual_table">>
      [] handler = "multimaster" -> <<"no_merge">>
      [] OTHER -> <<>>

RECURSIVE AppendFlags(_, _, _)
AppendFlags(list, options, i) ==
    IF i > Len(TgFlagOrder) THEN list
    ELSE AppendFlags(IF options[TgFlagOrder[i]]
                       THEN Append(list, TgFlagArg[TgFlagOrder[i]]) ELSE list,
                     options, i + 1)

\* build_tgargs: the list it returns, and whether that list is the object
\* options.trigger_arg (a non-empty --trigger-arg) or a new one
TgAliased(options) == options.trigger_arg # <<>>
build_tgargs(options) ==
    AppendFlags(IF TgAliased(options) THEN options.trigger_arg ELSE <<>>, options, 1)

\* the list local_add_table gets: build_tgargs, then build_handler's p.add
TgArgsOf(options, handler) ==
    build_tgargs(options) \o HandlerAdds(handler)

InitTgArgs ==
    /\ TgAlone
    /\ tgGiven \in TgGivenArgs
    /\ \E flags \in [TgFlagNames -> BOOLEAN] :
          tgOptions = [f \in TgFlagNames \cup {"trigger_arg"} |->
                          IF f = "trigger_arg" THEN tgGiven ELSE flags[f]]
    /\ tgHandler \in TgHandlers
    /\ tgCalls = <<>>
    /\ tgLeft \in 1..MaxAddTables

\* add_table for the next table of the command; a table that is missing
\* locally with --skip-non-existing is left out before build_tgargs
TgAddTable(skipped) ==
    /\ tgLeft > 0
    /\ tgLeft' = tgLeft - 1
    /\ IF skipped
         THEN UNCHANGED <<tgOptions, tgCalls>>
         ELSE LET list == TgArgsOf(tgOptions, tgHandler)
              IN /\ tgCalls' = Append(tgCalls, list)
                 /\ tgOptions' = IF TgAliased(tgOptions)
                                   THEN [tgOptions EXCEPT !.trigger_arg = list]
                                   ELSE tgOptions
    /\ UNCHANGED <<tgGiven, tgHandler>>
    /\ UNCHANGED tgRest

NextTgArgs ==
    \E skipped \in BOOLEAN : TgAddTable(skipped)

\* how often a is in list
RECURSIVE TgCount(_, _, _)
TgCount(list, a, i) ==
    IF i > Len(list) THEN 0
    ELSE (IF list[i] = a THEN 1 ELSE 0) + TgCount(list, a, i + 1)

\* the arguments asked for: flags of the command and those of the handler
TgRequested ==
    {TgFlagArg[f] : f \in {x \in TgFlagNames : tgOptions[x]}}
TgContributed == {HandlerAdds(tgHandler)[i] : i \in 1..Len(HandlerAdds(tgHandler))}

\* C39: the trigger-argument list of every local_add_table call of one
\* add-table command holds every requested flag and every argument of the
\* handler exactly once, however many tables were registered before it.
C39_ExactlyOnce ==
    \A i \in 1..Len(tgCalls) :
        \A a \in TgRequested \cup TgContributed : TgCount(tgCalls[i], a, 1) = 1

\* the same for the first table registered, and for a command without
\* --trigger-arg, where the handler does not add a flag that was requested
C39_FirstOrFresh ==
    TgRequested \cap TgContributed = {} =>
        \A i \in 1..Len(tgCalls) :
            (i = 1 \/ tgGiven = <<>>) =>
                \A a \in TgRequested \cup TgContributed : TgCount(tgCalls[i], a, 1) = 1

\* with --trigger-arg and --no-triggers, the second table registered got
\* no_triggers twice
C39_Doubled ==
    /\ Len(tgCalls) >= 2
    /\ tgGiven # <<>>
    /\ tgHandler = "none"
    /\ TgCount(tgCalls[1], "no_triggers", 1) = 1
    /\ TgCount(tgCalls[2], "no_triggers", 1) = 2

\* ------------------------------------------------- obfuscator, two rows
\* everything but the obfuscator and the pair of rows
pairRest == <<oldVars, adminVars, tsVars, akVars, csVars, plVars, slVars, sbVars,
              cpVars, gsVars, bfVars, tgVars>>

PairAlone ==
    /\ OldIdle /\ AdminIdle /\ TsIdle /\ AkIdle /\ CsIdle /\ PlIdle
    /\ SlIdle /\ SbIdle /\ CpIdle /\ GsIdle /\ BfIdle /\ TgIdle

RECURSIVE Listed(_, _)
\* the part of a JSON value that the rules name and do not skip
Listed(json_data, rule_data) ==
    IF rule_data.py = "dict"
    THEN IF json_data.py # "dict"
         THEN PyNone
         ELSE PyDict([k \in DOMAIN rule_data.items |->
                         Listed(JsonGet(json_data, k), rule_data.items[k])])
    ELSE IF rule_data.v = "skip" THEN PyNone
    ELSE json_data

\* two values of a column show the same under its rule: any two under skip
\* or without a rule, equal ones under an action, JSON documents with the
\* same listed part under a dict of rules
SameListed(v1, v2, rule) ==
    IF rule = SKIP THEN TRUE
    ELSE IF rule.py = "dict" /\ v1.ty = "json" /\ v2.ty = "json"
    THEN Listed(Loads(v1.v), rule) = Listed(Loads(v2.v), rule)
    ELSE v1 = v2

\* rows that differ from row only in skipped or unlisted columns and in
\* unlisted fields of a JSON column
Twins(row, map) ==
    {r \in [DOMAIN row -> ScalarValues \cup JsonValues] :
        /\ r["id"].ty = "int"
        /\ r # row
        /\ \A f \in DOMAIN row :
              SameListed(row[f], r[f], IF f \in DOMAIN map THEN map[f] ELSE SKIP)}

\* skytools.db_urlencode of a value of the row: None has no value part,
\* anything else goes as its str()
UrlEncodeValue(value) == IF value.py = "none" THEN <<>> ELSE <<value.v>>

\* skytools.json_encode or skytools.db_urlencode of the row, column by column
EncodeRow(row, format) ==
    LET cols == SelectSeq(ObfCols, LAMBDA col : col \in DOMAIN row)
    IN [i \in 1..Len(cols) |->
           <<cols[i], IF format = "json" THEN <<Dumps(row[cols[i]])>>
                      ELSE UrlEncodeValue(row[cols[i]])>>]

\* Obfuscator.get_copy_event: the event row with ev_data replaced
get_copy_event(ev_row) ==
    [ev_row EXCEPT !.ev_data = EncodeRow(parse_row_data, obfFormat)]

\* the event of the row at hand as the trigger wrote it: ev_data holds
\* every column of the row
EventOf(row) ==
    [ev_type |-> "I:id", ev_extra1 |-> "public.t",
     ev_data |-> [i \in 1..Len(ObfCols) |-> <<ObfCols[i], <<row[ObfCols[i]].v>>>>]]

NoOutput == [parse |-> <<>>, copy |-> <<>>, event |-> <<>>]

InitObfPair ==
    /\ PairAlone
    /\ \E idv \in {[ty |-> "int", v |-> s] : s \in IntTexts},
          idr \in {Action("hash64")} :
           \/ \E cv \in ScalarValues, cr \in Actions :
                  /\ obfRow = ("id" :> idv) @@ ("c" :> cv)
                  /\ obf_map \in {("id" :> idr) @@ ("c" :> cr), ("c" :> cr)}
           \/ \E cv \in JsonValues \cup {SqlNull}, cr \in Actions \cup JsonRules :
                  /\ obfRow = ("id" :> idv) @@ ("c" :> cv)
                  /\ obf_map \in {("id" :> idr) @@ ("c" :> cr), ("c" :> cr)}
    /\ obfFormat \in {"urlenc", "json"}
    /\ obfReplay = <<>>
    /\ obfCopy = <<>>
    /\ niTwin \in Twins(obfRow, obf_map)
    /\ niOut = <<NoOutput, NoOutput>>
    /\ niRow = 1
    /\ niPc = "parse"

\* the event of the row at hand goes through parse_row_data
NiParse ==
    /\ niPc = "parse"
    /\ niOut' = [niOut EXCEPT ![niRow].parse = <<parse_row_data>>]
    /\ niPc' = "copy"
    /\ UNCHANGED <<niTwin, niRow>>
    /\ UNCHANGED <<obfVars, pairRest>>

\* the COPY line of the row at hand goes through obf_copy_row
NiCopy ==
    /\ niPc = "copy"
    /\ niOut' = [niOut EXCEPT ![niRow].copy = <<obf_copy_row(CopyColumns)>>]
    /\ niPc' = "event"
    /\ UNCHANGED <<niTwin, niRow>>
    /\ UNCHANGED <<obfVars, pairRest>>

\* the event of the row at hand goes through get_copy_event; after the
\* first row the other row of the pair is taken up
NiEvent ==
    /\ niPc = "event"
    /\ niOut' = [niOut EXCEPT ![niRow].event = <<get_copy_event(EventOf(obfRow))>>]
    /\ IF niRow = 1
         THEN /\ obfRow' = niTwin
              /\ niTwin' = obfRow
              /\ niRow' = 2
              /\ niPc' = "parse"
         ELSE /\ niPc' = "done"
              /\ UNCHANGED <<obfRow, niTwin, niRow>>
    /\ UNCHANGED <<obf_map, obfFormat, obfReplay, obfCopy>>
    /\ UNCHANGED pairRest

NextObfPair ==
    \/ NiParse
    \/ NiCopy
    \/ NiEvent

\* C40: for two rows that differ only in columns whose rule is skip or
\* that have no rule, and in unlisted fields of a JSON column, the outputs
\* of parse_row_data, obf_copy_row and get_copy_event are the same: no
\* hidden value reaches the subscriber or the downstream queue.
C40_NoLeak ==
    \A k \in {"parse", "copy", "event"} :
        (niOut[1][k] # <<>> /\ niOut[2][k] # <<>>) => niOut[1][k] = niOut[2][k]

\* both rows went through all three operations; they differ in a column
\* without a rule and in a field of the JSON column that the rules leave out
C40_Witness ==
    /\ niPc = "done"
    /\ "id" \notin DOMAIN obf_map
    /\ obfRow["id"] # niTwin["id"]
    /\ obf_map["c"].py = "dict"
    /\ obfRow["c"].ty = "json" /\ niTwin["c"].ty = "json"
    /\ obfRow["c"] # niTwin["c"]
    /\ niOut[1].event[1].ev_data # <<>>

\* ------------------------------------------------------- specifications
Next ==
    \/ ProviderTick
    \/ \E p \in Procs : BeginBatch(p)
    \/ \E p \in Procs : Reload(p)
    \/ MainPass
    \/ \E w \in Tables : CopyPass(w)
    \/ \E w \in Tables : CopyRegister(w)
    \/ \E w \in Tables : CopyExit(w)
    \/ WaitSyncPoll

Spec == Init /\ [][Next]_vars
SpecAdmit == InitAdmit /\ [][Next]_vars
SpecRace == InitRace /\ [][Next]_vars
SpecTune == InitTune /\ [][Next]_vars
NextHandOff == Next \/ TickerTick
SpecHandOff == InitHandOff /\ [][NextHandOff]_vars
SpecBatch == InitBatch /\ [][NextBatch]_vars
SpecApply == InitApply /\ [][NextBatch]_vars
SpecAttrs == InitAttrs /\ [][NextAttrs]_vars
SpecShard == InitShard /\ [][NextShard]_vars
SpecLoader == InitLoader /\ [][NextLoader]_vars
SpecKeepLatest == InitLoader /\ [][NextKeepLatest]_vars
SpecRepair == InitRepair /\ [][NextRepair]_vars
\* the comparison is a loop of one process: it goes on while it can
SpecRepairFair == InitRepair /\ [][NextRepair]_vars /\ WF_vars(NextRepair)
SpecFind == InitFind /\ [][NextFind]_vars
SpecObf == InitObf /\ [][NextObf]_vars
SpecObject == InitObject /\ [][NextObject]_vars
SpecFkeys == InitFkeys /\ [][NextFkeys]_vars
SpecCopySync == InitCopySync /\ [][NextCopySync]_vars
SpecPlugins == InitPlugins /\ [][NextPlugins]_vars
SpecSlots == InitSlots /\ [][NextSlots]_vars
SpecShardInfo == InitShardInfo /\ [][NextShardInfo]_vars
SpecPipe == InitPipe /\ [][NextPipe]_vars
SpecGc == InitGc /\ [][NextGc]_vars
SpecBulkFlush == InitBulkFlush /\ [][NextBulkFlush]_vars
SpecTgArgs == InitTgArgs /\ [][NextTgArgs]_vars
SpecObfPair == InitObfPair /\ [][NextObfPair]_vars

\* ------------------------------------------------------------- properties
\* the step is one pass of the sync handler of process p
PassOf(p) == pc[p] = "sync" /\ pc'[p] # "sync"

\* the step is a pass of p that went on to process and commit its batch
BatchOf(p) == PassOf(p) /\ pc'[p] = "idle" /\ pos'[p] = curTick[p]

\* txids of the events in the batch process p holds
BatchTx(p) == (LastTxOf(prevTick[p]) + 1)..LastTxOf(curTick[p])

CopyRows == {"in-copy", "catching-up", "wanna-sync", "do-sync"}

\* C2: a copy worker whose table is in do-sync stores ok and exits if and
\* only if its cur_tick equals the table's sync_tick_id; while cur_tick is
\* smaller it leaves the stored state alone and processes the batch.
C2_HandOverAtSyncTick ==
    [][\A w \in Tables :
         (PassOf(w) /\ mem[w][w].state = TABLE_DO_SYNC) =>
            /\ (curTick[w] = mem[w][w].sync_tick_id)
                   <=> (db'[w].ms = "ok" /\ db'[w] # db[w] /\ pc'[w] = "exiting")
            /\ (curTick[w] # mem[w][w].sync_tick_id) => db'[w] = db[w]
            /\ (curTick[w] < mem[w][w].sync_tick_id) => BatchOf(w)]_vars

\* a copy worker has handed its table over and is about to exit, after it
\* processed a batch in do-sync
C2_Witness ==
    \E w \in Tables :
        /\ pc[w] = "exiting"
        /\ db[w].ms = "ok"
        /\ applied["copy"][w] # {}

\* C3 (amended): when the main worker promotes a table from wanna-sync to
\* do-sync, the tick it stores is its own cur_tick, which is not smaller
\* than the tick the copy worker stored with wanna-sync.
C3_DoSyncAtMainTick ==
    [][\A t \in Tables :
         (db[t].ms = "wanna-sync" /\ db'[t].ms = "do-sync") =>
            /\ PassOf(Main)
            /\ db'[t].tick = curTick[Main]
            /\ db'[t].tick >= db[t].tick]_vars

\* C3 as stated: the tick stored with do-sync equals the tick stored with
\* wanna-sync.
C3_Original ==
    [][\A t \in Tables :
         (db[t].ms = "wanna-sync" /\ db'[t].ms = "do-sync") =>
            db'[t].tick = db[t].tick]_vars

\* a table is in do-sync at a tick beyond the batch its copy worker holds
C3_Witness ==
    \E t \in Tables :
        /\ db[t].ms = "do-sync"
        /\ pc[t] \in {"sleep", "sync"}
        /\ db[t].tick > curTick[t]

\* transitions a worker may assign
MainAssigns == {<<TABLE_MISSING, TABLE_IN_COPY>>, <<TABLE_WANNA_SYNC, TABLE_DO_SYNC>>}
CopyAssigns == {<<TABLE_IN_COPY, TABLE_CATCHING_UP>>,
                <<TABLE_CATCHING_UP, TABLE_WANNA_SYNC>>,
                <<TABLE_DO_SYNC, TABLE_OK>>}

\* the pass of p stores for table t a state other than the one p loaded
Assigns(p, t) ==
    /\ PassOf(p)
    /\ db'[t] # db[t]
    /\ StateOfRow(db'[t]) # mem[p][t].state

C6_Interesting ==
    [][\A p \in Procs : \A t \in Tables :
         BatchOf(p) =>
            applied'[Kind(p)][t] = applied[Kind(p)][t] \cup
                {x \in BatchTx(p) :
                    /\ IF p = Main
                       THEN mem[p][t].state = TABLE_OK
                       ELSE t = p /\ mem[p][t].state \in {TABLE_CATCHING_UP, TABLE_DO_SYNC}
                    /\ \/ mem[p][t].str_snapshot = None
                       \/ ~SnapshotContains(mem[p][t].str_snapshot, x)}]_vars

\* both workers have applied events of a table, and its copy worker has
\* skipped the events of its first batch, which are inside the snapshot
C6_Witness ==
    \E t \in Tables :
        /\ applied["copy"][t] # {}
        /\ applied["main"][t] # {}
        /\ \E x \in 1..LastTxOf(lastTick) :
              /\ SnapshotContains(copySnap[t], x)
              /\ x \notin applied["copy"][t]

\* C7: the number of tables stored as in-copy, catching-up, wanna-sync or
\* do-sync never exceeds parallel_copies.
C7_ParallelCopies ==
    Cardinality({t \in Tables : db[t].ms \in CopyRows}) <= parallel_copies

\* every copy slot is taken while a table is still missing
C7_Witness ==
    /\ Cardinality({t \in Tables : db[t].ms \in CopyRows}) = parallel_copies
    /\ \E t \in Tables : db[t].ms = "null"
    /\ pos[Main] > 0

\* C8 (amended): in a pass of the main worker, a missing table that has no
\* copy_node attribute and is not ok on the provider stays missing: no
\* foreign keys dropped, state unchanged, no copy worker launched.
C8_SourceNotOk ==
    [][\A t \in Tables :
         (PassOf(Main) /\ mem[Main][t].state = TABLE_MISSING
            /\ t \notin copyNode /\ provState[t] # "ok") =>
            /\ db'[t] = db[t]
            /\ fkeyDropped'[t] = fkeyDropped[t]
            /\ pc'[t] = pc[t]]_vars

\* C8 as stated: every missing table that is not ok at its copy source
\* stays missing.
C8_Original ==
    [][\A t \in Tables :
         (PassOf(Main) /\ mem[Main][t].state = TABLE_MISSING
            /\ provState[t] # "ok") =>
            /\ db'[t] = db[t]
            /\ fkeyDropped'[t] = fkeyDropped[t]
            /\ pc'[t] = pc[t]]_vars

\* an admission pass has launched a copy and left behind a table that is
\* not ok on the provider
C8_Witness ==
    \E t, u \in Tables :
        /\ t \notin copyNode /\ provState[t] # "ok"
        /\ db[t].ms = "null" /\ ~fkeyDropped[t] /\ pc[t] = "none"
        /\ db[u].ms = "in-copy" /\ pc[u] = "new"

\* position of a stored state on the path missing -> in-copy ->
\* catching-up -> wanna-sync <-> do-sync -> ok
Rank(ms) ==
    CASE ms = "null"        -> 0
      [] ms = "in-copy"     -> 1
      [] ms = "catching-up" -> 2
      [] ms = "wanna-sync"  -> 3
      [] ms = "do-sync"     -> 3
      [] ms = "ok"          -> 4

\* C5: no step of a worker moves the stored state of a table backwards on
\* the path missing -> in-copy -> catching-up -> wanna-sync <-> do-sync ->
\* ok; no save_table_state writes an older state over a newer one.
C5_Monotone ==
    [][\A t \in Tables : Rank(db'[t].ms) >= Rank(db[t].ms)]_vars

\* both workers are through with the batch of txid x for table t
Settled(t, x) ==
    /\ TickOfTx(x) <= pos[Main]
    /\ pc[t] = "exited" \/ (pc[t] # "none" /\ TickOfTx(x) <= pos[t])

\* C1: for a copied table, every event outside the copy snapshot whose
\* batch both workers are through with has been passed to the handler by
\* exactly one of them, the copy worker for the earlier batches and the
\* main worker for the later ones.
C1_ExactlyOnce ==
    \A t \in Tables :
        copySnap[t] # None =>
            /\ applied["copy"][t] \cap applied["main"][t] = {}
            /\ \A x \in applied["copy"][t] : \A y \in applied["main"][t] : x < y
            /\ \A x \in 1..LastTxOf(lastTick) :
                  (~SnapshotContains(copySnap[t], x) /\ Settled(t, x)) =>
                      x \in applied["copy"][t] \cup applied["main"][t]

C10_WaitSync ==
    [][(~waitDone /\ waitDone') => \A t \in Tables : db[t].ms = "ok"]_vars

\* C10 as stated: moreover no copy worker is still there with its pidfile.
C10_Original ==
    [][(~waitDone /\ waitDone') =>
          /\ \A t \in Tables : db[t].ms = "ok"
          /\ \A t \in Tables : pc[t] \in {"none", "exited"}]_vars

\* wait_for_sync has returned
C10_Witness ==
    /\ waitDone
    /\ \A t \in Tables : db[t].ms = "ok" /\ copySnap[t] # None

C12_EventOrder ==
    \A i, j \in 1..Len(executed) :
        i < j => executed[i].ev <= executed[j].ev

\* the statements the step executed after flushing the buffer
NewOps ==
    LET from == Len(executed) + Len(sql_list)
    IN [i \in 1..(Len(executed') - from) |-> executed'[from + i].op]

\* C13: for an EXECUTE event on the main worker execute_start is called
\* before any statement of the script; with a ret_code above 200 nothing of
\* the script runs and execute_finish is not called; otherwise the script
\* runs only if need_execute is true, and execute_finish is called after
\* it.  On a copy worker the event executes nothing and changes no table.
C13_ExecuteEvent ==
    [][\A p \in Procs : \A ret \in RetCodes : \A need \in NeedResults :
         EventStep(p, "EXECUTE", NoTable, 1, ret, need) =>
            /\ SubSeq(executed', 1, Len(executed) + Len(sql_list)) = executed \o sql_list
            /\ IF IsCopy(p)
               THEN NewOps = <<>> /\ mem' = mem /\ db' = db /\ pc'[p] = "events"
               ELSE IF ret > ExecSkipAbove
               THEN NewOps = <<"role_local", "execute_start", "role_replica">>
               ELSE IF need = "yes"
               THEN NewOps = <<"role_local", "execute_start", "stmt",
                               "execute_finish", "role_replica">>
               ELSE IF need = "no"
               THEN NewOps = <<"role_local", "execute_start",
                               "execute_finish", "role_replica">>
               ELSE NewOps = <<"role_local", "execute_start">> /\ pc'[p] = "failed"]_vars

\* the main worker has run a script and closed its journal entry, and has
\* skipped another one
C13_Witness ==
    \E i, j, k \in 1..Len(executed) :
        /\ executed[i].op = "stmt"
        /\ executed[j].op = "execute_finish" /\ executed[j].ev = executed[i].ev
        /\ i < j
        /\ executed[k].op = "execute_start"
        /\ \A n \in 1..Len(executed) :
              executed[n].ev = executed[k].ev => executed[n].op # "execute_finish"
        /\ \A p \in Procs : pc[p] # "failed"

\* the values of the container, as <<key, index>>
AttrValues ==
    UNION {{<<k, n>> : n \in 1..Len(attrs[k])} : k \in DOMAIN attrs}

ValueMatches(x) == Match(x[1], fq_name(attrs[x[1]][x[2]]), local_tables, existing)

\* C14 (amended): need_execute counts values, not keys.  With M the number
\* of values that match locally and N the number of values that do not, it
\* returns true when N = 0 (also without attributes), false when M = 0 and
\* N > 0, and raises when M > 0 and N > 0.
C14_NeedExecute ==
    attrPc = "asked" =>
        LET M == Cardinality({x \in AttrValues : ValueMatches(x)})
            N == Cardinality({x \in AttrValues : ~ValueMatches(x)})
        IN /\ (N = 0) <=> (needResult = "yes")
           /\ (M = 0 /\ N > 0) <=> (needResult = "no")
           /\ (M > 0 /\ N > 0) <=> (needResult = "raise")

\* C14 as stated: M is the number of keys whose every value matches and N
\* the number of keys with a value that does not.
C14_Original ==
    attrPc = "asked" =>
        LET M == Cardinality({k \in DOMAIN attrs :
                     \A n \in 1..Len(attrs[k]) : ValueMatches(<<k, n>>)})
            N == Cardinality({k \in DOMAIN attrs :
                     \E n \in 1..Len(attrs[k]) : ~ValueMatches(<<k, n>>)})
        IN /\ ((M > 0 /\ N = 0) \/ DOMAIN attrs = {}) => needResult = "yes"
           /\ (M = 0 /\ N > 0) => needResult = "no"
           /\ (M > 0 /\ N > 0) => needResult = "raise"

\* need_execute has raised for a container with one key, one of whose
\* values matches and one does not
C14_Witness ==
    /\ attrPc = "asked"
    /\ needResult = "raise"
    /\ Cardinality(DOMAIN attrs) = 1

\* the lines of the text to_sql made
TextLines == SplitLines(sqlText)

ContIndent == META_PREFIX \o <<" ", " ", " ", " ", " ">>

\* line i is continued on the next line
Continued(i) == i < Len(TextLines) /\ StartsWith(TextLines[i + 1], ContIndent)

ValidShardInfo ==
    /\ shardConf.shard_count = shardConf.shard_mask + 1
    /\ BitAnd(shardConf.shard_count, shardConf.shard_mask) = 0

\* the event carries a hash
HasHash == shardEv # <<>> /\ shardEv # NoHash

\* shard numbers whose node the event belongs to
OwnerShards ==
    {nr \in 0..(shardConf.shard_count - 1) :
        BitAnd(HashOf(shardEv), shardConf.shard_mask) = nr}

\* nodes that have handled the event with a working handler
Handled == {n \in shardSeen : shardNode[n] = "ok"}

\* C16: with valid shard info and any event hash, of either sign, exactly one
\* shard_nr in 0..shard_count-1 has hash & shard_mask = shard_nr (it is the
\* hash modulo shard_count); a node whose handler replays applies the event
\* if and only if its shard_nr is that one, a node with disable_replay never
\* applies it; so when every node replays and every shard's node has
\* handled the event, it has been applied on exactly one node
C16_ShardOnce ==
    ValidShardInfo /\ HasHash =>
        /\ OwnerShards = {HashOf(shardEv) % shardConf.shard_count}
        /\ \A n \in Handled \ disable_replay : n \in shardApplied <=> n \in OwnerShards
        /\ shardApplied \cap disable_replay = {}
        /\ shardApplied \subseteq Handled
        /\ (disable_replay = {} /\ 0..(shardConf.shard_count - 1) \subseteq Handled)
              => Cardinality(shardApplied) = 1

\* C16 as stated: every node applies the event if and only if it owns it
C16_Original ==
    ValidShardInfo /\ HasHash =>
        /\ Cardinality(OwnerShards) = 1
        /\ \A n \in Handled : n \in shardApplied <=> n \in OwnerShards

\* a negative hash on four shards, handled by every node, applied on shard 3
C16_Witness ==
    /\ shardConf = [shard_mask |-> 3, shard_count |-> 4]
    /\ shardEv = HashEvent(-1)
    /\ shardSeen = ShardNrs
    /\ disable_replay = {}
    /\ shardApplied = {3}

\* the operations of the chain, in order
ChainOps == [i \in 1..Len(ldChain) |-> ldChain[i][1]]

\* the chain is one a provider row can go through when it starts as st does:
\* inserts only while the row is absent, updates and deletes only while present
RECURSIVE Feasible(_, _, _)
Feasible(present, chain, i) ==
    IF i > Len(chain) THEN TRUE
    ELSE IF chain[i][1] = "I" THEN ~present /\ Feasible(TRUE, chain, i + 1)
    ELSE IF chain[i][1] = "U" THEN present /\ Feasible(TRUE, chain, i + 1)
    ELSE present /\ Feasible(FALSE, chain, i + 1)

\* C17: for every chain of I/U/D events on one pkey that a row can go through
\* from the state the destination row starts in, applying what the loader
\* collapsed the chain to leaves the destination row as applying the events
\* one by one does
C17_CollapseSameRow ==
    ldPc = "flushed" /\ Feasible(ldStart.row # <<>>, ldChain, 1) =>
        /\ ldDest = ApplyChain(ldStart, ldChain, 1)
        /\ ~ldDest.failed

\* C17 as stated: for every chain and any starting state
C17_Original ==
    ldPc = "flushed" => ldDest = ApplyChain(ldStart, ldChain, 1)

\* update, delete, insert on an existing row: flushed as one update
C17_Witness ==
    /\ ldPc = "flushed"
    /\ ~ldPkOnly
    /\ ldStart.row = RowOf(FALSE, 1)
    /\ ChainOps = <<"U", "D", "I">>
    /\ ldDest.row = RowOf(FALSE, 2)
    /\ collect_data(pkey_ev_map)["U"] = {RowOf(FALSE, 2)}

\* the operation the loader holds for the pkey, "-" when it holds none
HeldOp(map) == DictGet(map, PkValue, <<"-", <<>>>>)[1]

FixKey(q) == IF q.op = "insert" THEN q.set[1][2] ELSE q.whr[1][2]

\* how many statements of the kind were reported for key k
CountFix(op, k) ==
    Cardinality({i \in 1..Len(fixes) : fixes[i].op = op /\ FixKey(fixes[i]) = k})

\* the reports the two tables call for
ReportsRight ==
    /\ \A k \in Keys :
          /\ CountFix("insert", k) =
                (IF srcTab[k] # Absent /\ dstTab[k] = Absent THEN 1 ELSE 0)
          /\ CountFix("delete", k) =
                (IF srcTab[k] = Absent /\ dstTab[k] # Absent THEN 1 ELSE 0)
          /\ CountFix("update", k) =
                (IF srcTab[k] # Absent /\ dstTab[k] # Absent /\ srcTab[k] # dstTab[k]
                   THEN 1 ELSE 0)
    /\ \A i \in 1..Len(fixes) : FixKey(fixes[i]) \in Keys

\* C19: dump_compare_streams on two dumps sorted by key comes to its end,
\* also when one dump ends before the other, and has then reported one
\* missed insert for each key only in the source, one missed delete for each
\* key only in the destination, one missed update for each key whose rows
\* differ, and nothing else
C19_CompareStreams ==
    /\ rpPc \notin {"IndexError", "endless"}
    /\ rpPc = "done" => ReportsRight

\* C20: the fix statements of one repair run, applied in the order they were
\* emitted, make the destination table equal to the source table
C20_FixesRepair ==
    rpPc \in {"applied", "applied after IndexError"} => fixedTab = srcTab

\* the table objects of p are the ones it loaded for the pass at hand
Loaded(p) == pc[p] = "sync"

SyncStates == {TABLE_WANNA_SYNC, TABLE_DO_SYNC}

\* C23: in every table object a worker holds, sync_tick_id is set if and only
\* if the state is wanna-sync or do-sync.
C23_SyncTickIff ==
    \A p \in Procs, t \in Tables :
        Loaded(p) => (mem[p][t].sync_tick_id # None <=> mem[p][t].state \in SyncStates)

\* C23 as the code has it: a table in wanna-sync or do-sync has its
\* sync_tick_id set, to the tick of its row; other states leave the field as
\* it was, so that set with another state means a table that has been in
\* wanna-sync before and is ok now.
C23_SyncTickSet ==
    \A p \in Procs, t \in Tables :
        Loaded(p) =>
            /\ mem[p][t].state \in SyncStates => mem[p][t].sync_tick_id # None
            /\ (mem[p][t].sync_tick_id # None /\ mem[p][t].state \notin SyncStates)
                   => mem[p][t].state = TABLE_OK

\* the main worker has loaded a table in do-sync
C23_Witness ==
    \E t \in Tables :
        /\ Loaded(Main)
        /\ mem[Main][t].state = TABLE_DO_SYNC
        /\ mem[Main][t].sync_tick_id # None

\* a worker has loaded a table as ok and still holds the tick of its sync
C23_Stale ==
    \E p \in Procs, t \in Tables :
        /\ Loaded(p)
        /\ mem[p][t].state = TABLE_OK
        /\ mem[p][t].sync_tick_id # None

\* the stored state of the table is one of ms
RowIn(t, ms) == db[t].ms \in ms

\* the step clears the stored snapshot of the table
Clears(t) == db[t].snap # None /\ db'[t].snap = None

C24_NoEarlyClear ==
    [][\A t \in Tables :
          Clears(t) => ~RowIn(t, {"catching-up", "wanna-sync", "do-sync"})]_vars

ToDoSync(t) == db[t].ms = "wanna-sync" /\ db'[t].ms = "do-sync"

\* a wanna-sync table is ready in the pass the main worker is about to make
SyncWanted ==
    /\ pc[Main] = "sync"
    /\ \E t \in Tables : DsyncReady(mem[Main][t], curTick[Main])

\* C27: the main worker moves a table from wanna-sync to do-sync only in a
\* pass in which neither pgq_min_count nor pgq_min_interval is active; when
\* one is active and a table is ready, the pass saves them with its tick,
\* clears them and moves no table, and the move is made only in a batch with
\* a greater tick than the one they were cleared in.
C27_SmallBatches ==
    [][/\ \A t \in Tables :
              ToDoSync(t) =>
                  /\ pc[Main] = "sync" /\ pc'[Main] # "sync"
                  /\ ~pgqMin[Main]
                  /\ dsyncBackup # <<>> => curTick[Main] > dsyncBackup[1]
       /\ (SyncWanted /\ pgqMin[Main] /\ pc'[Main] # "sync") =>
              /\ dsyncBackup' = <<curTick[Main], TRUE>>
              /\ ~pgqMin'[Main]
              /\ \A t \in Tables : ~ToDoSync(t)]_vars

\* the thresholds were cleared for a table, the table was moved to do-sync
\* in a later batch, and the thresholds are back
C27_Witness ==
    /\ pgqMin[Main]
    /\ dsyncBackup = <<>>
    /\ \E t \in Tables : db[t].ms = "do-sync"

\* C33: a copy worker started for table w never writes the state or the
\* snapshot of another table: every row it stores, from
\* sync_from_copy_thread, copy_snapshot_cleanup or the save at the end of
\* the batch, is the row of w.
C33_OwnRowOnly ==
    [][\A w \in Tables :
          (pc[w] = "sync" /\ pc'[w] # "sync") =>
              \A t \in Tables \ {w} : db'[t] = db[t]]_vars

\* the rows a copy worker stores for other tables than its own carry the
\* state that is stored already
C33_StateKept ==
    [][\A w \in Tables :
          (pc[w] = "sync" /\ pc'[w] # "sync") =>
              \A t \in Tables \ {w} : db'[t].ms = db[t].ms /\ db'[t].tick = db[t].tick]_vars

\* C35: when both workers follow the hand-off, the copy worker never finds
\* cur_tick greater than sync_tick_id for its do-sync table: the 'Invalid
\* table state' branch of sync_from_copy_thread is not reached.
C35_NoInvalidState ==
    \A w \in Tables :
        (pc[w] = "sync" /\ mem[w][w].state = TABLE_DO_SYNC) =>
            /\ mem[w][w].sync_tick_id # None
            /\ curTick[w] <= mem[w][w].sync_tick_id
            /\ CopyRet(mem[w][w], curTick[w], workState[w]) # SYNC_RAISE

\* a copy worker that accumulates batches finds its table in do-sync at a
\* tick it has not reached yet, with later ticks already in the queue
C35_Witness ==
    \E w \in Tables :
        /\ pc[w] = "sync"
        /\ mem[w][w].state = TABLE_DO_SYNC
        /\ pgqMin[w]
        /\ curTick[w] < mem[w][w].sync_tick_id
        /\ mem[w][w].sync_tick_id < lastTick

\* C37: for the same row operations on one destination table, with the
\* delete-then-insert pairs of row_mode keep_latest, the rows DirectLoader
\* leaves (the statements one by one) are the rows BulkLoader with method
\* correct leaves after flush, for every starting content of the table.
C37_SameRows ==
    ldPc = "flushed" => ldDest = ApplyChain(ldStart, ldChain, 1)

\* the same where every operation finds the row as its kind expects it:
\* an insert no row, a delete (also the one of a pair) a row
C37_FittingStart ==
    ldPc = "flushed" /\ Feasible(ldStart.row # <<>>, ldChain, 1) =>
        ldDest = ApplyChain(ldStart, ldChain, 1)

\* one update under keep_latest of a row the destination does not hold:
\* the bulk loader flushed it as an update and the table stays empty
C37_LostRow ==
    /\ ldPc = "flushed"
    /\ ~ldPkOnly
    /\ ldStart.row = <<>>
    /\ ChainOps = <<"D", "I">>
    /\ ldDest.row = <<>>
    /\ ApplyChain(ldStart, ldChain, 1).row # <<>>

\* C38: dump_compare_streams comes to its end for every pair of finite
\* sorted dumps, with every line of both dumps read and no error raised,
\* also when the dumps differ in length or one of them is empty.
C38_Terminates ==
    <>(rpPc = "done" /\ dumpSrc = <<>> /\ dumpDst = <<>>)

\* the same for dumps whose last keys are equal: both end on the same round
C38_SameLastKey ==
    (\A k \in Keys : (\A j \in Keys : j > k => srcTab[j] = Absent /\ dstTab[j] = Absent)
                        => (srcTab[k] = Absent <=> dstTab[k] = Absent))
        => <>(rpPc = "done" /\ dumpSrc = <<>> /\ dumpDst = <<>>)

\* the comparison stopped with lines of the longer dump unread
C38_Stopped ==
    /\ rpPc \in {"IndexError", "endless"}
    /\ dumpSrc # <<>> \/ dumpDst # <<>>

====
